---- MODULE Spec2Model ----
(***************************************************************************)
(* Model of capytaine's Nemoh solver (src/capytaine/Nemoh.py): the bounded *)
(* store of exponential decompositions, the recursive, symmetry-aware      *)
(* assembly of the influence matrices, and the symmetric mesh composites   *)
(* of src/capytaine/mesh/symmetries.py it dispatches on.                   *)
(*                                                                         *)
(* Matrices are symbolic: a dense block records the mesh pair it was       *)
(* evaluated on and the additive contributions it sums, a symmetric matrix *)
(* records its generating blocks.  The numerical kernels (_Green) are      *)
(* opaque; what is modelled is which kernel is called on what, with which  *)
(* exponential decomposition, and what this does to the solver's state.    *)
(***************************************************************************)
EXTENDS Integers, Sequences, FiniteSets, TLC

(***************************************************************************)
(* Bounds of the model.                                                    *)
(***************************************************************************)
\* largest max_stored_exponential_decompositions a solver is built with
MaxCap == 2
\* wave frequencies of the problems handed to solve(): 1..MaxOmega
MaxOmega == 3
\* direct calls of build_matrices explored in one behaviour of SpecAssemble
MaxCalls == 1

\* number of faces of the mesh handed to the image term, and the range
\* -MaxZ..0 of the heights of their centres
MaxFaces == 2

MaxZ == 2

\* number of results the caller keeps for later computations
MaxResults == 2

\* length of the sequence handed to solve_all, and number of its processes
MaxBatch == 2

MaxWorkers == 2

\* transformations made in place on a symmetric mesh
MaxTransforms == 2

(***************************************************************************)
(* Extended numbers.  np.infty is the sentinel Infty; the only arithmetic  *)
(* the solver does on a possibly infinite number is free_surface -         *)
(* sea_bottom.                                                             *)
(***************************************************************************)
Infty == 1000

\* depth = free_surface - sea_bottom, in IEEE arithmetic: infinite as soon
\* as the free surface is at +inf or the sea bottom at -inf.
Depth(free_surface, sea_bottom) ==
    IF free_surface = Infty \/ sea_bottom = -Infty
    THEN Infty
    ELSE free_surface - sea_bottom

(***************************************************************************)
(* Geometry: vectors are integer triples, a plane is a normal and an       *)
(* offset c (the points x with normal . x = c).                            *)
(***************************************************************************)
Dot(u, v) == u[1] * v[1] + u[2] * v[2] + u[3] * v[3]

Scaled(i, v) == <<i * v[1], i * v[2], i * v[3]>>

NoVec == <<0, 0, 0>>

NoPlane == [normal |-> NoVec, c |-> 0]

xOz_Plane == [normal |-> <<0, 1, 0>>, c |-> 0]

yOz_Plane == [normal |-> <<1, 0, 0>>, c |-> 0]

\* Plane.translate(vector): the plane moves by the component of the vector
\* along its normal.
PlaneTranslate(plane, vector) ==
    [plane EXCEPT !.c = plane.c + Dot(plane.normal, vector)]

\* self.translation -= 2 * (self.translation @ plane.normal) * plane.normal
MirrorVec(translation, plane) ==
    LET d == Dot(translation, plane.normal)
    IN  <<translation[1] - 2 * d * plane.normal[1],
          translation[2] - 2 * d * plane.normal[2],
          translation[3] - 2 * d * plane.normal[3]>>

\* Plane.mirror(plane): the image of the plane across another plane
PlaneMirror(plane, other) ==
    [normal |-> MirrorVec(plane.normal, other),
     c |-> plane.c - 2 * other.c * Dot(plane.normal, other.normal)]

\* np.allclose on two translation vectors.  The vectors of the model have
\* integer coordinates of small magnitude, on which closeness within
\* rtol = 1e-5, atol = 1e-8 is equality.
AllClose(u, v) == u = v

(***************************************************************************)
(* Meshes.  A mesh object is identified by its name: a base name and the   *)
(* path of transformations (0: mirrored copy, i > 0: i-th repetition) that *)
(* produced it.  `mesh1 is mesh2` is equality of names.                    *)
(***************************************************************************)
Mesh(base) ==
    [name |-> [base |-> base, path |-> <<>>], kind |-> "Mesh",
     plane |-> NoPlane, translation |-> NoVec, submeshes |-> <<>>]

Is(mesh1, mesh2) == mesh1.name = mesh2.name

RECURSIVE Mirrored(_, _)
\* half.mirror(plane, inplace=False): a new object; the sub-meshes of a
\* collection are mirrored with it, a ReflectionSymmetry has its plane
\* mirrored (ReflectionSymmetry.mirror) and a TranslationalSymmetry has its
\* translation reflected (TranslationalSymmetry.mirror).
Mirrored(mesh, plane) ==
    [name |-> [base |-> mesh.name.base, path |-> <<0>> \o mesh.name.path],
     kind |-> mesh.kind,
     plane |-> IF mesh.kind = "ReflectionSymmetry"
               THEN PlaneMirror(mesh.plane, plane)
               ELSE mesh.plane,
     translation |-> IF mesh.kind = "TranslationalSymmetry"
                     THEN MirrorVec(mesh.translation, plane)
                     ELSE mesh.translation,
     submeshes |-> [i \in 1..Len(mesh.submeshes) |->
                        Mirrored(mesh.submeshes[i], plane)]]

RECURSIVE Translated(_, _, _)
\* mesh_slice.translated(vector=i*translation): a new object; a
\* ReflectionSymmetry has its plane translated (ReflectionSymmetry.translate),
\* a TranslationalSymmetry keeps its translation
\* (TranslationalSymmetry.translate).
Translated(mesh, i, vector) ==
    [name |-> [base |-> mesh.name.base, path |-> <<i>> \o mesh.name.path],
     kind |-> mesh.kind,
     plane |-> IF mesh.kind = "ReflectionSymmetry"
               THEN PlaneTranslate(mesh.plane, vector)
               ELSE mesh.plane,
     translation |-> mesh.translation,
     submeshes |-> [j \in 1..Len(mesh.submeshes) |->
                        Translated(mesh.submeshes[j], i, vector)]]

\* mesh_slice.rotated(axis, angle=2*i*pi/(nb_repetitions+1)): a new object.
\* Only plain meshes are rotated in this model.
Rotated(mesh, i) ==
    [mesh EXCEPT !.name = [base |-> mesh.name.base,
                           path |-> <<i>> \o mesh.name.path]]

\* ReflectionSymmetry.__new__: (half, other_half), self.plane = plane.copy()
ReflectionSymmetry(half, plane, name) ==
    [name |-> [base |-> name, path |-> <<>>], kind |-> "ReflectionSymmetry",
     plane |-> plane, translation |-> NoVec,
     submeshes |-> <<half, Mirrored(half, plane)>>]

\* TranslationalSymmetry.__new__: the slice and nb_repetitions translates
TranslationalSymmetry(mesh_slice, translation, nb_repetitions, name) ==
    [name |-> [base |-> name, path |-> <<>>], kind |-> "TranslationalSymmetry",
     plane |-> NoPlane, translation |-> translation,
     submeshes |-> [i \in 1..(nb_repetitions + 1) |->
                        IF i = 1 THEN mesh_slice
                        ELSE Translated(mesh_slice, i - 1,
                                        Scaled(i - 1, translation))]]

\* AxialSymmetry.__new__: the slice and nb_repetitions rotations of it
AxialSymmetry(mesh_slice, nb_repetitions, name) ==
    [name |-> [base |-> name, path |-> <<>>], kind |-> "AxialSymmetry",
     plane |-> NoPlane, translation |-> NoVec,
     submeshes |-> [i \in 1..(nb_repetitions + 1) |->
                        IF i = 1 THEN mesh_slice
                        ELSE Rotated(mesh_slice, i - 1)]]

\* mesh.nb_submeshes
NbSubmeshes(mesh) == Len(mesh.submeshes)

(***************************************************************************)
(* The decomposition store: MaxLengthDict, an ordered dictionary of        *)
(* bounded length.  It is a sequence of entries [key, value], the least    *)
(* recently used first and the most recently used last.                    *)
(***************************************************************************)
DictKeys(dict) == {dict[i].key : i \in 1..Len(dict)}

\* key in dict
Contains(dict, key) == key \in DictKeys(dict)

IndexOf(dict, key) == CHOOSE i \in 1..Len(dict) : dict[i].key = key

Without(dict, i) == SubSeq(dict, 1, i - 1) \o SubSeq(dict, i + 1, Len(dict))

\* dict.move_to_end(key, last=True): mark key most recently used
MoveToEnd(dict, key) ==
    LET i == IndexOf(dict, key)
    IN  Without(dict, i) \o <<dict[i]>>

\* dict.popitem(last=False): evict the least recently used entry
EvictOldest(dict) == Tail(dict)

\* dict[key] = value: a new key goes to the most recently used position and,
\* if the size now exceeds the maximum, the least recently used entry is
\* evicted; a key already there keeps its position and takes the value.
SetItem(dict, key, value, max_length) ==
    IF Contains(dict, key)
    THEN [dict EXCEPT ![IndexOf(dict, key)].value = value]
    ELSE LET inserted == Append(dict, [key |-> key, value |-> value])
         IN  IF Len(inserted) > max_length
             THEN EvictOldest(inserted)
             ELSE inserted

\* next(reversed(dict.values())): the value of the most recently used entry
LastValue(dict) == dict[Len(dict)].value

(***************************************************************************)
(* Exponential decompositions.  A stored decomposition is the pair         *)
(* (a, lamda) fitted for one key and padded to 31 slots; the wave kernel   *)
(* of an infinite-depth call gets a pair of 31 unset slots instead.        *)
(***************************************************************************)
NExpSlots == 31

\* (a, lamda) after the padding of lines 191-192, for the key it was fitted on
FittedDecomposition(key) ==
    [kind |-> "fitted", of |-> key, slots |-> NExpSlots]

\* np.empty(31), np.empty(31)
EmptyDecomposition ==
    [kind |-> "empty", of |-> <<>>, slots |-> NExpSlots]

(***************************************************************************)
(* Problems: what solve() reads of a LinearPotentialFlowProblem.           *)
(***************************************************************************)
\* problem.depth
ProblemDepth(pb) == Depth(pb.free_surface, pb.sea_bottom)

\* (pb.dimensionless_omega, pb.dimensionless_wavenumber), with g = 1:
\* omega^2 depth / g and wavenumber * depth
ProblemKey(pb) ==
    <<pb.omega * pb.omega * ProblemDepth(pb), pb.wavenumber * ProblemDepth(pb)>>

\* variant: without the membership test of line 163, every solve fits and
\* assigns
ComputeExponentialDecompositionAlwaysFits(dict, max_length, pb) ==
    LET key == ProblemKey(pb)
    IN  [dict |-> SetItem(dict, key, FittedDecomposition(key), max_length),
         fitted |-> TRUE]

\* variant: without the assignment of line 194, a fit is not stored
ComputeExponentialDecompositionNoStore(dict, max_length, pb) ==
    LET key == ProblemKey(pb)
    IN  IF ~Contains(dict, key)
        THEN [dict |-> dict, fitted |-> TRUE]
        ELSE [dict |-> MoveToEnd(dict, key), fitted |-> FALSE]

\* variant: without the else branch of lines 197-198, a hit promotes nothing
ComputeExponentialDecompositionNoPromote(dict, max_length, pb) ==
    LET key == ProblemKey(pb)
    IN  IF ~Contains(dict, key)
        THEN [dict |-> SetItem(dict, key, FittedDecomposition(key), max_length),
              fitted |-> TRUE]
        ELSE [dict |-> dict, fitted |-> FALSE]

\* _compute_exponential_decomposition(pb) on the store `dict` of maximal
\* length max_length: fit and store when the key is absent, otherwise mark
\* the key most recently used.  Returns the store and what was done.
ComputeExponentialDecomposition(dict, max_length, pb) ==
    LET key == ProblemKey(pb)
    IN  IF ~Contains(dict, key)
        THEN [dict |-> SetItem(dict, key, FittedDecomposition(key), max_length),
              fitted |-> TRUE]
        ELSE [dict |-> MoveToEnd(dict, key), fitted |-> FALSE]

(***************************************************************************)
(* The per-block store __cache__ of the keep_in_cache decorator: one       *)
(* unbounded dictionary for each of the three contributions, keyed by the  *)
(* mesh pair and the physical parameters the contribution takes.           *)
(***************************************************************************)
EmptyFunction == [x \in {} |-> x]

EmptyCache ==
    [Green0 |-> EmptyFunction, Green1 |-> EmptyFunction, Green2 |-> EmptyFunction]

\* keep_in_cache(cache_name): return the stored pair when the key is there,
\* otherwise compute it and store it; with use_cache off, only compute.
\* `computed` is the outcome of the decorated function: [raised, value].
KeepInCache(self, cache_name, key, computed) ==
    IF self.use_cache /\ key \in DOMAIN self.cache[cache_name]
    THEN [cache |-> self.cache, raised |-> FALSE, hit |-> TRUE,
          value |-> self.cache[cache_name][key]]
    ELSE IF computed.raised
    THEN [cache |-> self.cache, raised |-> TRUE, hit |-> FALSE,
          value |-> computed.value]
    ELSE [cache |-> IF self.use_cache
                    THEN [self.cache EXCEPT ![cache_name] =
                              (key :> computed.value) @@ self.cache[cache_name]]
                    ELSE self.cache,
          raised |-> FALSE, hit |-> FALSE, value |-> computed.value]

(***************************************************************************)
(* The three contributions of the default path.  The value of one is the   *)
(* record of the kernel call that produces the pair (S, V).                *)
(***************************************************************************)
NoValue == [term |-> "none"]

\* _build_matrices_0: the Rankine kernel on the mesh pair
BuildMatrices0(self, mesh1, mesh2) ==
    KeepInCache(self, "Green0", <<mesh1.name, mesh2.name>>,
        [raised |-> FALSE,
         value |-> [term |-> "Green0", kernel |-> "rankine",
                    mesh1 |-> mesh1.name, mesh2 |-> mesh2.name]])

\* _build_matrices_1: the Rankine kernel on mesh1 reflected across the free
\* surface (infinite depth; result negated) or across the sea bottom
BuildMatrices1(self, mesh1, mesh2, free_surface, sea_bottom) ==
    LET depth == Depth(free_surface, sea_bottom)
    IN  KeepInCache(self, "Green1",
            <<mesh1.name, mesh2.name, free_surface, sea_bottom>>,
            [raised |-> FALSE,
             value |-> [term |-> "Green1", kernel |-> "rankine",
                        mesh1 |-> mesh1.name, mesh2 |-> mesh2.name,
                        reflected_across |-> IF depth = Infty THEN free_surface
                                             ELSE sea_bottom,
                        negated |-> (depth = Infty)]])

\* variant: the finite-depth branch looks the decomposition up under the
\* key of its own arguments, and raises when that key is not stored
WaveSourceByKey(self, mesh1, mesh2, free_surface, sea_bottom, wavenumber) ==
    LET depth == Depth(free_surface, sea_bottom)
        key == <<wavenumber * depth, wavenumber * depth>>
    IN  IF depth = Infty
        THEN [raised |-> FALSE,
              value |-> [term |-> "Green2", kernel |-> "wave",
                         mesh1 |-> mesh1.name, mesh2 |-> mesh2.name,
                         wavenumber |-> wavenumber, depth |-> 0,
                         decomposition |-> EmptyDecomposition,
                         n_exp |-> NExpSlots, read_store |-> FALSE,
                         same_body |-> Is(mesh1, mesh2)]]
        ELSE IF ~Contains(self.exponential_decompositions, key)
        THEN [raised |-> TRUE, value |-> NoValue]
        ELSE [raised |-> FALSE,
              value |-> [term |-> "Green2", kernel |-> "wave",
                         mesh1 |-> mesh1.name, mesh2 |-> mesh2.name,
                         wavenumber |-> wavenumber, depth |-> depth,
                         decomposition |->
                             self.exponential_decompositions[
                                 IndexOf(self.exponential_decompositions, key)].value,
                         n_exp |-> NExpSlots, read_store |-> TRUE,
                         same_body |-> Is(mesh1, mesh2)]]

\* the body of _build_matrices_2: the wave kernel, with 31 unset slots for
\* an infinite depth and with the last stored decomposition otherwise;
\* next() on an empty store raises StopIteration.
WaveSource(self, mesh1, mesh2, free_surface, sea_bottom, wavenumber) ==
    LET depth == Depth(free_surface, sea_bottom)
    IN  IF depth = Infty
        THEN [raised |-> FALSE,
              value |-> [term |-> "Green2", kernel |-> "wave",
                         mesh1 |-> mesh1.name, mesh2 |-> mesh2.name,
                         wavenumber |-> wavenumber, depth |-> 0,
                         decomposition |-> EmptyDecomposition,
                         n_exp |-> NExpSlots, read_store |-> FALSE,
                         same_body |-> Is(mesh1, mesh2)]]
        ELSE IF Len(self.exponential_decompositions) = 0
        THEN [raised |-> TRUE, value |-> NoValue]
        ELSE [raised |-> FALSE,
              value |-> [term |-> "Green2", kernel |-> "wave",
                         mesh1 |-> mesh1.name, mesh2 |-> mesh2.name,
                         wavenumber |-> wavenumber, depth |-> depth,
                         decomposition |->
                             LastValue(self.exponential_decompositions),
                         n_exp |-> NExpSlots, read_store |-> TRUE,
                         same_body |-> Is(mesh1, mesh2)]]

\* _build_matrices_2, decorated
BuildMatrices2(self, mesh1, mesh2, free_surface, sea_bottom, wavenumber) ==
    KeepInCache(self, "Green2",
        <<mesh1.name, mesh2.name, free_surface, sea_bottom, wavenumber>>,
        WaveSource(self, mesh1, mesh2, free_surface, sea_bottom, wavenumber))

(***************************************************************************)
(* Symbolic matrices.                                                      *)
(***************************************************************************)
NoMatrix == [type |-> "none"]

\* the dense matrix S (or V) of a mesh pair: the sum of the contributions
DenseMatrix(part, mesh1, mesh2, terms) ==
    [type |-> "dense", part |-> part, mesh1 |-> mesh1.name,
     mesh2 |-> mesh2.name, terms |-> terms]

BlockToeplitzMatrix(blocks) ==
    [type |-> "BlockToeplitzMatrix", blocks |-> blocks]

BlockCirculantMatrix(blocks, size) ==
    [type |-> "BlockCirculantMatrix", blocks |-> blocks, size |-> size]

(***************************************************************************)
(* build_matrices: the dispatch on the kind of the two meshes.             *)
(***************************************************************************)
\* lines 237-240
IsReflectionCase(mesh1, mesh2, force_full_computation) ==
    /\ mesh1.kind = "ReflectionSymmetry"
    /\ mesh2.kind = "ReflectionSymmetry"
    /\ mesh1.plane = mesh2.plane
    /\ ~force_full_computation

\* lines 256-260
IsTranslationCase(mesh1, mesh2, force_full_computation) ==
    /\ mesh1.kind = "TranslationalSymmetry"
    /\ mesh2.kind = "TranslationalSymmetry"
    /\ AllClose(mesh1.translation, mesh2.translation)
    /\ NbSubmeshes(mesh1) = NbSubmeshes(mesh2)
    /\ ~force_full_computation

\* variant: any two axial composites take the axial branch
IsAxialCaseAnyPair(mesh1, mesh2, force_full_computation) ==
    /\ mesh1.kind = "AxialSymmetry"
    /\ mesh2.kind = "AxialSymmetry"
    /\ ~force_full_computation

\* lines 276-278
IsAxialCase(mesh1, mesh2, force_full_computation) ==
    /\ mesh1.kind = "AxialSymmetry"
    /\ Is(mesh1, mesh2)
    /\ ~force_full_computation

\* the if / elif chain
Branch(mesh1, mesh2, force_full_computation) ==
    IF IsReflectionCase(mesh1, mesh2, force_full_computation) THEN "reflection"
    ELSE IF IsTranslationCase(mesh1, mesh2, force_full_computation)
    THEN "translation"
    ELSE IF IsAxialCase(mesh1, mesh2, force_full_computation) THEN "axial"
    ELSE "default"

\* variant: the slice stops at the half rounded up, plus one
AxialSubbodiesRoundedUp(mesh2) ==
    LET n == (NbSubmeshes(mesh2) + 1) \div 2 + 1
    IN  SubSeq(mesh2.submeshes, 1, IF n < NbSubmeshes(mesh2) THEN n
                                   ELSE NbSubmeshes(mesh2))

\* mesh2.submeshes[:mesh2.nb_submeshes // 2 + 1]
AxialSubbodies(mesh2) ==
    LET n == NbSubmeshes(mesh2) \div 2 + 1
    IN  SubSeq(mesh2.submeshes, 1, IF n < NbSubmeshes(mesh2) THEN n
                                   ELSE NbSubmeshes(mesh2))

\* variant: the reflection branch takes the mirrored half first
SubbodiesMirrorFirst(branch, mesh2) ==
    IF branch = "reflection" THEN <<mesh2.submeshes[2], mesh2.submeshes[1]>>
    ELSE IF branch = "translation" THEN mesh2.submeshes
    ELSE AxialSubbodies(mesh2)

\* variant: the translation branch stops one sub-mesh short
SubbodiesOneShort(branch, mesh2) ==
    IF branch = "reflection" THEN <<mesh2.submeshes[1], mesh2.submeshes[2]>>
    ELSE IF branch = "translation"
    THEN SubSeq(mesh2.submeshes, 1, NbSubmeshes(mesh2) - 1)
    ELSE AxialSubbodies(mesh2)

\* variant: the reflection branch recurses on the half and on mesh2 itself
SubbodiesWithWhole(branch, mesh2) ==
    IF branch = "reflection" THEN <<mesh2.submeshes[1], mesh2>>
    ELSE IF branch = "translation" THEN mesh2.submeshes
    ELSE AxialSubbodies(mesh2)

\* the sub-meshes of mesh2 that the branch recurses on, in call order
Subbodies(branch, mesh2) ==
    IF branch = "reflection" THEN <<mesh2.submeshes[1], mesh2.submeshes[2]>>
    ELSE IF branch = "translation" THEN mesh2.submeshes
    ELSE AxialSubbodies(mesh2)

\* the pair of symmetric matrices a branch returns from its block lists
Combine(branch, mesh1, S_list, V_list) ==
    IF branch = "axial"
    THEN [S |-> BlockCirculantMatrix(S_list, NbSubmeshes(mesh1)),
          V |-> BlockCirculantMatrix(V_list, NbSubmeshes(mesh1))]
    ELSE [S |-> BlockToeplitzMatrix(S_list), V |-> BlockToeplitzMatrix(V_list)]

\* variant: the image and wave terms are added when the depth is finite
\* instead of when the free surface is
DefaultPathOnDepth(self, mesh1, mesh2, free_surface, sea_bottom, wavenumber) ==
    LET t0 == BuildMatrices0(self, mesh1, mesh2)
        self0 == [self EXCEPT !.cache = t0.cache]
        t1 == BuildMatrices1(self0, mesh1, mesh2, free_surface, sea_bottom)
        self1 == [self EXCEPT !.cache = t1.cache]
        t2 == BuildMatrices2(self1, mesh1, mesh2, free_surface, sea_bottom,
                             wavenumber)
        call(name, t) == [name |-> name, hit |-> t.hit, raised |-> t.raised,
                          value |-> t.value]
    IN  IF ~(Depth(free_surface, sea_bottom) < Infty)
        THEN [cache |-> t0.cache, raised |-> FALSE,
              terms |-> <<call("Green0", t0)>>,
              S |-> DenseMatrix("S", mesh1, mesh2, <<t0.value>>),
              V |-> DenseMatrix("V", mesh1, mesh2, <<t0.value>>)]
        ELSE IF t2.raised
        THEN [cache |-> t2.cache, raised |-> TRUE,
              terms |-> <<call("Green0", t0), call("Green1", t1),
                          call("Green2", t2)>>,
              S |-> NoMatrix, V |-> NoMatrix]
        ELSE [cache |-> t2.cache, raised |-> FALSE,
              terms |-> <<call("Green0", t0), call("Green1", t1),
                          call("Green2", t2)>>,
              S |-> DenseMatrix("S", mesh1, mesh2,
                                <<t0.value, t1.value, t2.value>>),
              V |-> DenseMatrix("V", mesh1, mesh2,
                                <<t0.value, t1.value, t2.value>>)]

\* the else branch (lines 309-331): the Rankine term, then, with a finite
\* free surface, the image term and the wave term.  An exception of the wave
\* term leaves what the earlier terms stored.
DefaultPath(self, mesh1, mesh2, free_surface, sea_bottom, wavenumber) ==
    LET t0 == BuildMatrices0(self, mesh1, mesh2)
        self0 == [self EXCEPT !.cache = t0.cache]
        t1 == BuildMatrices1(self0, mesh1, mesh2, free_surface, sea_bottom)
        self1 == [self EXCEPT !.cache = t1.cache]
        t2 == BuildMatrices2(self1, mesh1, mesh2, free_surface, sea_bottom,
                             wavenumber)
        call(name, t) == [name |-> name, hit |-> t.hit, raised |-> t.raised,
                          value |-> t.value]
    IN  IF ~(free_surface < Infty)
        THEN [cache |-> t0.cache, raised |-> FALSE,
              terms |-> <<call("Green0", t0)>>,
              S |-> DenseMatrix("S", mesh1, mesh2, <<t0.value>>),
              V |-> DenseMatrix("V", mesh1, mesh2, <<t0.value>>)]
        ELSE IF t2.raised
        THEN [cache |-> t2.cache, raised |-> TRUE,
              terms |-> <<call("Green0", t0), call("Green1", t1),
                          call("Green2", t2)>>,
              S |-> NoMatrix, V |-> NoMatrix]
        ELSE [cache |-> t2.cache, raised |-> FALSE,
              terms |-> <<call("Green0", t0), call("Green1", t1),
                          call("Green2", t2)>>,
              S |-> DenseMatrix("S", mesh1, mesh2,
                                <<t0.value, t1.value, t2.value>>),
              V |-> DenseMatrix("V", mesh1, mesh2,
                                <<t0.value, t1.value, t2.value>>)]

\* the record of one call of build_matrices: its arguments, the branch it
\* took, the recursive calls it made, the contributions it evaluated and
\* what it returned
CallRecord(mesh1, mesh2, free_surface, sea_bottom, wavenumber, force_full_computation, branch, calls, terms, raised, S, V) ==
    [mesh1 |-> mesh1, mesh2 |-> mesh2,
     free_surface |-> free_surface, sea_bottom |-> sea_bottom,
     wavenumber |-> wavenumber,
     force_full_computation |-> force_full_computation,
     branch |-> branch, calls |-> calls, terms |-> terms, raised |-> raised,
     S |-> S, V |-> V]

RECURSIVE BuildMatrices(_, _, _, _, _, _, _)
RECURSIVE BuildBlocks(_, _, _, _, _, _, _, _)
\* the loop over the sub-meshes of mesh2: one recursive call each, against
\* mesh1.submeshes[0]; an exception ends it.
BuildBlocks(self, first, subbodies, free_surface, sea_bottom, wavenumber, force_full_computation, acc) ==
    IF subbodies = <<>> \/ acc.raised
    THEN acc
    ELSE LET r == BuildMatrices([self EXCEPT !.cache = acc.cache], first,
                                Head(subbodies), free_surface, sea_bottom,
                                wavenumber, force_full_computation)
         IN  BuildBlocks(self, first, Tail(subbodies), free_surface,
                         sea_bottom, wavenumber, force_full_computation,
                         [cache |-> r.cache,
                          S_list |-> IF r.raised THEN acc.S_list
                                     ELSE Append(acc.S_list, r.S),
                          V_list |-> IF r.raised THEN acc.V_list
                                     ELSE Append(acc.V_list, r.V),
                          calls |-> Append(acc.calls, r.call),
                          raised |-> r.raised])

\* build_matrices(mesh1, mesh2, free_surface, sea_bottom, wavenumber,
\* force_full_computation) on the solver `self`: the matrices, the per-block
\* store afterwards and the record of the call.
BuildMatrices(self, mesh1, mesh2, free_surface, sea_bottom, wavenumber, force_full_computation) ==
    LET branch == Branch(mesh1, mesh2, force_full_computation)
    IN  IF branch = "default"
        THEN LET d == DefaultPath(self, mesh1, mesh2, free_surface,
                                  sea_bottom, wavenumber)
             IN  [cache |-> d.cache, raised |-> d.raised, S |-> d.S, V |-> d.V,
                  call |-> CallRecord(mesh1, mesh2, free_surface, sea_bottom,
                                      wavenumber, force_full_computation,
                                      branch, <<>>, d.terms, d.raised,
                                      d.S, d.V)]
        ELSE LET b == BuildBlocks(self, mesh1.submeshes[1],
                                  Subbodies(branch, mesh2), free_surface,
                                  sea_bottom, wavenumber,
                                  force_full_computation,
                                  [cache |-> self.cache, S_list |-> <<>>,
                                   V_list |-> <<>>, calls |-> <<>>,
                                   raised |-> FALSE])
                 m == Combine(branch, mesh1, b.S_list, b.V_list)
                 S == IF b.raised THEN NoMatrix ELSE m.S
                 V == IF b.raised THEN NoMatrix ELSE m.V
             IN  [cache |-> b.cache, raised |-> b.raised, S |-> S, V |-> V,
                  call |-> CallRecord(mesh1, mesh2, free_surface, sea_bottom,
                                      wavenumber, force_full_computation,
                                      branch, b.calls, <<>>, b.raised, S, V)]

(***************************************************************************)
(* The meshes, problems and calls the model explores.                      *)
(***************************************************************************)
P1 == Mesh("P1")

P2 == Mesh("P2")

\* reflection composites: R1 and R2 share the plane xOz, R3 has the plane yOz
R1 == ReflectionSymmetry(P1, xOz_Plane, "R1")

R2 == ReflectionSymmetry(P2, xOz_Plane, "R2")

R3 == ReflectionSymmetry(P1, yOz_Plane, "R3")

\* translation composites: T1 and T2 share vector and count, T3 has another
\* vector, T4 another count
T1 == TranslationalSymmetry(P1, <<1, 0, 0>>, 1, "T1")

T2 == TranslationalSymmetry(P2, <<1, 0, 0>>, 1, "T2")

T3 == TranslationalSymmetry(P1, <<0, 1, 0>>, 1, "T3")

T4 == TranslationalSymmetry(P1, <<1, 0, 0>>, 2, "T4")

\* axial composites of 2, 3, 4 and 5 sub-meshes; A3c is a copy of A3: an
\* equal composite that is another object
A2 == AxialSymmetry(P1, 1, "A2")

A3 == AxialSymmetry(P1, 2, "A3")

A4 == AxialSymmetry(P1, 3, "A4")

A5 == AxialSymmetry(P1, 4, "A5")

A3c == AxialSymmetry(P1, 2, "A3c")

\* nested composites: the mirror of a row of two, a row of two mirrors
RT == ReflectionSymmetry(T1, xOz_Plane, "RT")

TR == TranslationalSymmetry(R1, <<1, 0, 0>>, 1, "TR")

FreeSurfaces == {0, Infty}

SeaBottoms == {-Infty, -1}

\* the bodies of the problems handed to solve()
SolveMeshes == {A3}

\* a problem of frequency omega: its wavenumber follows from the
\* dispersion relation, taken in units where it reads wavenumber = omega^2
Problem(body, free_surface, sea_bottom, omega) ==
    [body |-> body, free_surface |-> free_surface, sea_bottom |-> sea_bottom,
     omega |-> omega, wavenumber |-> omega * omega]

\* finite-depth problems at every frequency, and each way of having an
\* infinite depth (no sea bottom, no free surface, neither) at one frequency
Problems ==
    { Problem(body, 0, -1, omega) : body \in SolveMeshes, omega \in 1..MaxOmega }
    \cup
    { Problem(body, fs_sb[1], fs_sb[2], 1) :
        body \in SolveMeshes,
        fs_sb \in { x \in FreeSurfaces \X SeaBottoms : Depth(x[1], x[2]) = Infty } }

\* the problems solved before build_matrices is called directly
PrimingProblems == { Problem(P1, 0, -1, 2) }

\* the mesh pairs build_matrices is called on directly
MeshPairs ==
    { <<P1, P1>>, <<P1, P2>>,
      <<R1, R1>>, <<R1, R2>>, <<R1, R3>>,
      <<T1, T1>>, <<T1, T2>>, <<T1, T3>>, <<T1, T4>>, <<T4, T4>>,
      <<A2, A2>>, <<A3, A3>>, <<A4, A4>>, <<A5, A5>>, <<A3, A3c>>,
      <<R1, T1>>, <<T1, A3>>, <<A3, R1>>, <<P1, R1>>, <<R1, P1>>,
      <<RT, RT>>, <<TR, TR>> }

\* the other arguments of those calls: free_surface, sea_bottom, wavenumber
\* and force_full_computation
AssembleArguments ==
    { <<0, -Infty, 4, FALSE>>, <<0, -1, 4, FALSE>>, <<0, -1, 1, FALSE>>,
      <<Infty, -1, 4, FALSE>>, <<0, -1, 4, TRUE>> }

(***************************************************************************)
(* The state: one solver.                                                  *)
(***************************************************************************)
VARIABLES
    max_length,                  \* max_stored_exponential_decompositions
    use_cache,                   \* store_matrices_in_cache
    exponential_decompositions,  \* the decomposition store
    cache,                       \* __cache__
    touched,                     \* history: the keys solved for, by last solve
    inserted,                    \* history: the stored keys, by insertion
    ncalls,                      \* number of direct calls of build_matrices
    last                         \* what the last operation did

vars == <<max_length, use_cache, exponential_decompositions, cache, touched,
          inserted, ncalls, last>>

(***************************************************************************)
(* The state of the other components, each explored by a specification of  *)
(* its own; they rest while the solver runs.                               *)
(***************************************************************************)
VARIABLES
    faces_centers,               \* mesh1.faces_centers of an image-term call
    faces_normals,               \* mesh1.faces_normals of an image-term call
    image                        \* the image-term call and what it returned

VARIABLES
    results                      \* the results returned by solve, kept by the caller

imageVars == <<faces_centers, faces_normals, image>>

ImageIdle ==
    /\ faces_centers = <<>>
    /\ faces_normals = <<>>
    /\ image = [op |-> "none"]

ResultsIdle == results = <<>>

VARIABLES
    batch,                       \* the call of solve_all in progress
    slots,                       \* the outcome of each of its tasks
    workers                      \* the processes of its pool

batchVars == <<batch, slots, workers>>

BatchIdle ==
    /\ batch = [op |-> "none"]
    /\ slots = <<>>
    /\ workers = <<>>

VARIABLES
    profile,                     \* per term count: is the validation error
                                 \* of the fitted function below 1e-4
    fitting                      \* what the last fit and wave term did

fitVars == <<profile, fitting>>

FitIdle ==
    /\ profile = <<>>
    /\ fitting = [op |-> "none"]

VARIABLES
    composite,                   \* the symmetric mesh the caller holds
    construction,                \* the last call of a constructor
    ntransforms                  \* number of transformations made in place

symVars == <<composite, construction, ntransforms>>

NoComposite == [kind |-> "none"]

SymIdle ==
    /\ composite = NoComposite
    /\ construction = [op |-> "none"]
    /\ ntransforms = 0

others == <<imageVars, results, batchVars, fitVars, symVars>>

\* the components other than the image term, the kept results, the pool
notImage == <<results, batchVars, fitVars, symVars>>

notResults == <<imageVars, batchVars, fitVars, symVars>>

notBatch == <<imageVars, results, fitVars, symVars>>

notFit == <<imageVars, results, batchVars, symVars>>

notSym == <<imageVars, results, batchVars, fitVars>>

OthersIdle == ImageIdle /\ ResultsIdle /\ BatchIdle /\ FitIdle /\ SymIdle

\* the solver as the methods see it
Self(dict) ==
    [exponential_decompositions |-> dict, use_cache |-> use_cache,
     cache |-> cache]

\* Nemoh.__init__
Init ==
    /\ max_length \in 0..MaxCap
    /\ use_cache \in BOOLEAN
    /\ exponential_decompositions = <<>>
    /\ cache = EmptyCache
    /\ touched = <<>>
    /\ inserted = <<>>
    /\ ncalls = 0
    /\ last = [op |-> "init"]
    /\ OthersIdle

KeysOf(dict) == [i \in 1..Len(dict) |-> dict[i].key]

SeqWithout(seq, x) == SelectSeq(seq, LAMBDA y : y # x)

\* solve(problem, keep_details), on the solver
SolveStep(problem, keep_details) ==
    LET finite == ProblemDepth(problem) < Infty
        key == ProblemKey(problem)
        before == exponential_decompositions
        d == IF finite
             THEN ComputeExponentialDecomposition(before, max_length, problem)
             ELSE [dict |-> before, fitted |-> FALSE]
        r == BuildMatrices(Self(d.dict), problem.body, problem.body,
                           problem.free_surface, problem.sea_bottom,
                           problem.wavenumber, FALSE)
    IN  /\ exponential_decompositions' = d.dict
        /\ cache' = r.cache
        /\ touched' = IF finite THEN Append(SeqWithout(touched, key), key)
                      ELSE touched
        /\ inserted' = IF d.fitted
                       THEN SelectSeq(Append(inserted, key),
                                      LAMBDA k : Contains(d.dict, k))
                       ELSE inserted
        /\ last' = [op |-> "solve", finite |-> finite, key |-> key,
                    present |-> finite /\ Contains(before, key),
                    fitted |-> d.fitted, before |-> before,
                    touched_before |-> touched,
                    inserted_before |-> inserted,
                    raised |-> r.raised, call |-> r.call, S |-> r.S, V |-> r.V,
                    sources |-> IF keep_details /\ ~r.raised THEN "sources"
                                ELSE "None"]
        /\ UNCHANGED <<max_length, use_cache, ncalls>>

\* solve(problem, keep_details), the result dropped
Solve(problem, keep_details) ==
    SolveStep(problem, keep_details) /\ UNCHANGED others

\* a direct call of build_matrices
Assemble(mesh1, mesh2, free_surface, sea_bottom, wavenumber, force_full_computation) ==
    LET r == BuildMatrices(Self(exponential_decompositions), mesh1, mesh2,
                           free_surface, sea_bottom, wavenumber,
                           force_full_computation)
    IN  /\ ncalls < MaxCalls
        /\ ncalls' = ncalls + 1
        /\ cache' = r.cache
        /\ last' = [op |-> "build_matrices", raised |-> r.raised,
                    call |-> r.call, S |-> r.S, V |-> r.V]
        /\ UNCHANGED <<max_length, use_cache, exponential_decompositions,
                       touched, inserted, others>>

SolveAny == \E problem \in Problems : Solve(problem, FALSE)

Next == SolveAny

Spec == Init /\ [][Next]_vars

SolvePriming == \E problem \in PrimingProblems : Solve(problem, FALSE)

AssembleAny ==
    \E pair \in MeshPairs, args \in AssembleArguments :
        Assemble(pair[1], pair[2], args[1], args[2], args[3], args[4])

NextAssemble == SolvePriming \/ AssembleAny

SpecAssemble == Init /\ [][NextAssemble]_vars

(***************************************************************************)
(* Properties of the decomposition store.                                  *)
(***************************************************************************)
\* the value stored under a key
ValueOf(dict, key) == dict[IndexOf(dict, key)].value

\* the entries of a store, without their order
Entries(dict) == {dict[i] : i \in 1..Len(dict)}

\* position of x in a sequence that holds it once
PositionOf(seq, x) == CHOOSE i \in 1..Len(seq) : seq[i] = x

NoDuplicates(seq) ==
    \A i, j \in 1..Len(seq) : seq[i] = seq[j] => i = j

\* the calls of a call tree
RECURSIVE Nodes(_)
Nodes(call) ==
    {call} \cup UNION {Nodes(call.calls[i]) : i \in 1..Len(call.calls)}

\* the evaluations of the wave term in a call tree that were not answered
\* from the per-block store
WaveEvaluations(call) ==
    { n.terms[3] : n \in { m \in Nodes(call) : Len(m.terms) = 3 /\ ~m.terms[3].hit } }

\* C1: a solve of a finite-depth problem whose key is already stored fits
\* nothing and inserts nothing: the store keeps its keys, its size and the
\* value stored under each key, and the key becomes the most recently used
\* one.  Hence no key is listed twice among the stored keys by insertion.
C1_HitPromotes ==
    /\ (last.op = "solve" /\ last.present) =>
          /\ ~last.fitted
          /\ DictKeys(exponential_decompositions) = DictKeys(last.before)
          /\ Len(exponential_decompositions) = Len(last.before)
          /\ Entries(exponential_decompositions) = Entries(last.before)
          /\ ValueOf(exponential_decompositions, last.key)
                 = ValueOf(last.before, last.key)
          /\ exponential_decompositions[Len(exponential_decompositions)].key
                 = last.key
          /\ inserted = last.inserted_before
    /\ NoDuplicates(inserted)
    /\ NoDuplicates(KeysOf(exponential_decompositions))

\* a hit on a key that was not the most recently used one of a full store
C1_Witness ==
    /\ last.op = "solve"
    /\ last.present
    /\ Len(last.before) >= 2
    /\ last.before[Len(last.before)].key # last.key
    /\ exponential_decompositions[Len(exponential_decompositions)].key = last.key

\* C2: a solve of a finite-depth problem whose key is absent puts the newly
\* fitted decomposition at the most recently used position; an entry leaves
\* the store only when the insertion would exceed max_length, and then it is
\* the single oldest one; the size never exceeds max_length.
C2_MissInserts ==
    /\ Len(exponential_decompositions) <= max_length
    /\ (last.op = "solve" /\ last.finite /\ ~last.present) =>
          LET new == [key |-> last.key, value |-> FittedDecomposition(last.key)]
              n == Len(exponential_decompositions)
          IN  /\ last.fitted
              /\ max_length >= 1 =>
                    /\ n >= 1
                    /\ exponential_decompositions[n] = new
                    /\ \E k \in 0..1 :
                          SubSeq(exponential_decompositions, 1, n - 1)
                              = SubSeq(last.before, 1 + k, Len(last.before))
              /\ Len(last.before) + 1 <= max_length =>
                    exponential_decompositions = Append(last.before, new)
              /\ Len(last.before) + 1 > max_length =>
                    Len(exponential_decompositions) = max_length

\* a miss on a full store of two entries: one leaves, the new one is last
C2_Witness ==
    /\ last.op = "solve"
    /\ last.finite
    /\ ~last.present
    /\ Len(last.before) = max_length
    /\ max_length >= 2
    /\ Len(exponential_decompositions) = max_length
    /\ exponential_decompositions[max_length].key = last.key
    /\ last.before[1].key \notin DictKeys(exponential_decompositions)

\* C3: the entry an insertion evicts is the least recently touched one
\* (touched: inserted or hit by a solve): every key that leaves the store was
\* last solved for before every key that stays, and the key just solved for
\* stays whenever anything does.
C3_EvictsLeastRecentlyTouched ==
    (last.op = "solve" /\ last.finite) =>
        LET victims == DictKeys(last.before) \ DictKeys(exponential_decompositions)
            survivors == DictKeys(last.before) \cap DictKeys(exponential_decompositions)
        IN  /\ \A v \in victims : \A s \in survivors :
                  PositionOf(last.touched_before, v)
                      < PositionOf(last.touched_before, s)
            /\ last.key \notin victims
            /\ exponential_decompositions # <<>> =>
                  last.key \in DictKeys(exponential_decompositions)
            /\ KeysOf(exponential_decompositions)
                   = SelectSeq(touched, LAMBDA k :
                                   Contains(exponential_decompositions, k))

\* an eviction where a key inserted earlier than the victim stays, because a
\* solve hit it in between
C3_Witness ==
    /\ last.op = "solve"
    /\ last.finite
    /\ \E v \in DictKeys(last.before) \ DictKeys(exponential_decompositions) :
       \E s \in DictKeys(last.before) \cap DictKeys(exponential_decompositions) :
           /\ PositionOf(last.inserted_before, s)
                  < PositionOf(last.inserted_before, v)
           /\ PositionOf(last.touched_before, v)
                  < PositionOf(last.touched_before, s)

\* C4: solve fits or promotes the decomposition of a finite-depth problem
\* before it builds the matrices, so that every evaluation of the wave term
\* finds the store non-empty with, as most recently used entry, the one of
\* the problem's own key; a solve of an infinite-depth problem neither reads
\* nor changes the store.
C4_SolvePrimesTheStore ==
    last.op = "solve" =>
        IF last.finite
        THEN /\ ~last.raised
             /\ exponential_decompositions # <<>>
             /\ exponential_decompositions[Len(exponential_decompositions)].key
                    = last.key
             /\ \A t \in WaveEvaluations(last.call) :
                   /\ ~t.raised
                   /\ t.value.read_store
                   /\ t.value.decomposition = FittedDecomposition(last.key)
        ELSE /\ exponential_decompositions = last.before
             /\ ~last.fitted
             /\ \A t \in WaveEvaluations(last.call) :
                   ~t.raised /\ ~t.value.read_store

(***************************************************************************)
(* Properties of build_matrices, over the calls of the last operation.     *)
(***************************************************************************)
\* the calls the last operation made of build_matrices, nested ones included
LastCalls == IF last.op = "init" THEN {} ELSE Nodes(last.call)

\* the call n recursed on mesh1.submeshes[0] against the given sub-meshes of
\* mesh2, in order, with its own free_surface, sea_bottom and wavenumber,
\* evaluated no kernel itself, and stopped only at a call that raised
RecursesOn(n, subbodies) ==
    /\ n.terms = <<>>
    /\ Len(n.calls) <= Len(subbodies)
    /\ \A i \in 1..Len(n.calls) :
          /\ n.calls[i].mesh1 = n.mesh1.submeshes[1]
          /\ n.calls[i].mesh2 = subbodies[i]
          /\ n.calls[i].free_surface = n.free_surface
          /\ n.calls[i].sea_bottom = n.sea_bottom
          /\ n.calls[i].wavenumber = n.wavenumber
          /\ n.calls[i].raised => i = Len(n.calls)
    /\ n.raised <=> (n.calls # <<>> /\ n.calls[Len(n.calls)].raised)
    /\ ~n.raised => Len(n.calls) = Len(subbodies)

\* the S blocks and the V blocks the recursive calls of n returned
SBlocks(n) == [i \in 1..Len(n.calls) |-> n.calls[i].S]

VBlocks(n) == [i \in 1..Len(n.calls) |-> n.calls[i].V]

C6_ReflectionBranch ==
    \A n \in LastCalls :
        ( /\ ~n.force_full_computation
          /\ n.mesh1.kind = "ReflectionSymmetry"
          /\ n.mesh2.kind = "ReflectionSymmetry"
          /\ n.mesh1.plane = n.mesh2.plane ) =>
            /\ RecursesOn(n, <<n.mesh2.submeshes[1], n.mesh2.submeshes[2]>>)
            /\ ~n.raised =>
                  /\ Len(n.calls) = 2
                  /\ n.S = BlockToeplitzMatrix(<<n.calls[1].S, n.calls[2].S>>)
                  /\ n.V = BlockToeplitzMatrix(<<n.calls[1].V, n.calls[2].V>>)

\* a completed call on two distinct reflection composites of the same plane
C6_Witness ==
    /\ last.op = "build_matrices"
    /\ ~last.raised
    /\ last.call.mesh1 = R1
    /\ last.call.mesh2 = R2
    /\ ~last.call.force_full_computation
    /\ Len(last.call.calls) = 2
    /\ last.call.calls[2].mesh2 = R2.submeshes[2]
    /\ last.S.type = "BlockToeplitzMatrix"

\* C7: without force_full_computation, a call on two translation composites
\* of equal vectors and equal numbers N of sub-meshes makes exactly N
\* recursive calls, one per sub-mesh of mesh2 in order, each against the
\* first sub-mesh of mesh1, and returns block Toeplitz matrices whose block
\* lists have length N.
C7_TranslationBranch ==
    \A n \in LastCalls :
        ( /\ ~n.force_full_computation
          /\ n.mesh1.kind = "TranslationalSymmetry"
          /\ n.mesh2.kind = "TranslationalSymmetry"
          /\ n.mesh1.translation = n.mesh2.translation
          /\ Len(n.mesh1.submeshes) = Len(n.mesh2.submeshes) ) =>
            /\ RecursesOn(n, n.mesh2.submeshes)
            /\ ~n.raised =>
                  /\ Len(n.calls) = Len(n.mesh2.submeshes)
                  /\ n.S = BlockToeplitzMatrix(SBlocks(n))
                  /\ n.V = BlockToeplitzMatrix(VBlocks(n))
                  /\ Len(n.S.blocks) = Len(n.mesh2.submeshes)
                  /\ Len(n.V.blocks) = Len(n.mesh2.submeshes)

\* a completed call on a row of three sub-meshes
C7_Witness ==
    /\ last.op = "build_matrices"
    /\ ~last.raised
    /\ last.call.mesh1 = T4
    /\ last.call.mesh2 = T4
    /\ ~last.call.force_full_computation
    /\ Len(last.call.calls) = 3
    /\ last.call.calls[3].mesh2 = T4.submeshes[3]
    /\ Len(last.S.blocks) = 3

\* the branch conditions, as the rotation branch states them
AxialCondition(n) ==
    /\ ~n.force_full_computation
    /\ n.mesh1.kind = "AxialSymmetry"
    /\ n.mesh1.name = n.mesh2.name

\* C8 as stated: the rotation branch recurses on the first ceil(N/2) + 1
\* sub-meshes, for every N >= 2.
C8_RoundedUp ==
    \A n \in LastCalls :
        (AxialCondition(n) /\ ~n.raised /\ Len(n.mesh2.submeshes) >= 2) =>
            Len(n.calls) = (Len(n.mesh2.submeshes) + 1) \div 2 + 1

\* C8, amended: without force_full_computation, a call on one rotation
\* composite of N >= 2 sub-meshes (mesh1 and mesh2 the same object) recurses
\* on the first floor(N/2) + 1 sub-meshes of mesh2, in order, each against
\* the first sub-mesh of mesh1, and returns block circulant matrices of
\* declared size N built from those blocks.
C8_AxialBranch ==
    \A n \in LastCalls :
        (AxialCondition(n) /\ Len(n.mesh2.submeshes) >= 2) =>
            LET N == Len(n.mesh2.submeshes)
            IN  /\ RecursesOn(n, SubSeq(n.mesh2.submeshes, 1, N \div 2 + 1))
                /\ ~n.raised =>
                      /\ Len(n.calls) = N \div 2 + 1
                      /\ n.S = BlockCirculantMatrix(SBlocks(n), N)
                      /\ n.V = BlockCirculantMatrix(VBlocks(n), N)

\* a completed call on a rotation composite of five sub-meshes: three
\* recursive calls
C8_Witness ==
    /\ last.op = "build_matrices"
    /\ ~last.raised
    /\ last.call.mesh1 = A5
    /\ last.call.mesh2 = A5
    /\ ~last.call.force_full_computation
    /\ Len(last.call.calls) = 3
    /\ last.S.type = "BlockCirculantMatrix"
    /\ last.S.size = 5

\* one of the three symmetry conditions of build_matrices holds of a call
SymmetryCondition(n) ==
    \/ /\ n.mesh1.kind = "ReflectionSymmetry"
       /\ n.mesh2.kind = "ReflectionSymmetry"
       /\ n.mesh1.plane = n.mesh2.plane
    \/ /\ n.mesh1.kind = "TranslationalSymmetry"
       /\ n.mesh2.kind = "TranslationalSymmetry"
       /\ n.mesh1.translation = n.mesh2.translation
       /\ Len(n.mesh1.submeshes) = Len(n.mesh2.submeshes)
    \/ /\ n.mesh1.kind = "AxialSymmetry"
       /\ n.mesh1.name = n.mesh2.name

\* C9: a call takes the default dense path exactly when
\* force_full_computation is set or none of the three symmetry conditions
\* holds; on that path it makes no recursive call, and a mismatch of
\* symmetries (kinds, planes, vectors, counts, or two distinct rotation
\* composites) raises nothing: the call returns dense matrices on the whole
\* meshes.  The one exception of the path is that of the wave term reading
\* an empty store at a finite depth.
C9_DefaultPath ==
    \A n \in LastCalls :
        /\ (n.branch = "default")
               <=> (n.force_full_computation \/ ~SymmetryCondition(n))
        /\ n.branch = "default" =>
              /\ n.calls = <<>>
              /\ n.raised =>
                    /\ exponential_decompositions = <<>>
                    /\ n.free_surface < Infty
                    /\ Depth(n.free_surface, n.sea_bottom) < Infty
              /\ ~n.raised =>
                    /\ n.S.type = "dense"
                    /\ n.V.type = "dense"
                    /\ n.S.mesh1 = n.mesh1.name
                    /\ n.S.mesh2 = n.mesh2.name
                    /\ n.V.mesh1 = n.mesh1.name
                    /\ n.V.mesh2 = n.mesh2.name

\* a completed call on two equal rotation composites that are distinct
\* objects: dense matrices on the whole composites
C9_Witness ==
    /\ last.op = "build_matrices"
    /\ ~last.raised
    /\ last.call.mesh1 = A3
    /\ last.call.mesh2 = A3c
    /\ ~last.call.force_full_computation
    /\ last.call.branch = "default"
    /\ last.S.type = "dense"
    /\ last.S.mesh2 = A3c.name

\* the names and the values of the contributions a call evaluated
TermNames(n) == [i \in 1..Len(n.terms) |-> n.terms[i].name]

TermValues(n) == [i \in 1..Len(n.terms) |-> n.terms[i].value]

\* C10: on the default path the Rankine term is evaluated for every call;
\* the image term and the wave term are both evaluated if and only if
\* free_surface is finite; with an infinite free_surface neither is and the
\* decomposition store is not read.  The result is the sum of the
\* contributions evaluated.
C10_DefaultPathTerms ==
    \A n \in LastCalls :
        n.branch = "default" =>
            /\ TermNames(n) = IF n.free_surface < Infty
                              THEN <<"Green0", "Green1", "Green2">>
                              ELSE <<"Green0">>
            /\ n.terms[1].value.kernel = "rankine"
            /\ ~(n.free_surface < Infty) =>
                  /\ ~n.raised
                  /\ \A i \in 1..Len(n.terms) : n.terms[i].value.term # "Green2"
            /\ ~n.raised =>
                  /\ n.S = DenseMatrix("S", n.mesh1, n.mesh2, TermValues(n))
                  /\ n.V = DenseMatrix("V", n.mesh1, n.mesh2, TermValues(n))

\* a call without free surface above a finite sea bottom, on a solver whose
\* store holds a decomposition: the Rankine term alone
C10_Witness ==
    /\ last.op = "build_matrices"
    /\ last.call.branch = "default"
    /\ last.call.free_surface = Infty
    /\ last.call.sea_bottom = -1
    /\ exponential_decompositions # <<>>
    /\ TermNames(last.call) = <<"Green0">>
    /\ last.S.terms = <<last.call.terms[1].value>>

(***************************************************************************)
(* The image term on the geometry of mesh1 (_build_matrices_1).  A point   *)
(* or a vector is a triple <<x, y, z>>; the free-space kernel is opaque:   *)
(* its result records the source geometry it was called on and a sign.     *)
(***************************************************************************)
\* no solver is at work
SolverIdle ==
    /\ max_length = 0
    /\ use_cache = FALSE
    /\ exponential_decompositions = <<>>
    /\ cache = EmptyCache
    /\ touched = <<>>
    /\ inserted = <<>>
    /\ ncalls = 0
    /\ last = [op |-> "init"]

\* reflect_vector: y = x.copy(); y[:, 2] = -x[:, 2]
ReflectVector(x) ==
    [i \in 1..Len(x) |-> <<x[i][1], x[i][2], -x[i][3]>>]

\* reflect_point across the plane z = z0: y[:, 2] = 2*z0 - x[:, 2]
ReflectPoint(x, z0) ==
    [i \in 1..Len(x) |-> <<x[i][1], x[i][2], 2 * z0 - x[i][3]>>]

\* build_matrices_rankine_source on the given source centres and normals
RankineSource(part, centers, normals) ==
    [part |-> part, kernel |-> "rankine", centers |-> centers,
     normals |-> normals, sign |-> 1]

\* -S1
Negated(matrix) == [matrix EXCEPT !.sign = -matrix.sign]

\* variant: the mirror plane is the free surface whatever the depth
ImageSourceAcrossFreeSurface(centers, normals, free_surface, sea_bottom) ==
    LET depth == Depth(free_surface, sea_bottom)
        S1 == RankineSource("S", ReflectPoint(centers, free_surface),
                            ReflectVector(normals))
        V1 == RankineSource("V", ReflectPoint(centers, free_surface),
                            ReflectVector(normals))
    IN  [S |-> IF depth = Infty THEN Negated(S1) ELSE S1,
         V |-> IF depth = Infty THEN Negated(V1) ELSE V1,
         faces_centers |-> centers, faces_normals |-> normals]

\* the body of _build_matrices_1 on mesh1.faces_centers and
\* mesh1.faces_normals: the pair returned, and the two arrays of mesh1
\* afterwards (the reflections work on copies)
ImageSource(centers, normals, free_surface, sea_bottom) ==
    LET depth == Depth(free_surface, sea_bottom)
        reflected == IF depth = Infty
                     THEN ReflectPoint(centers, free_surface)
                     ELSE ReflectPoint(centers, sea_bottom)
        S1 == RankineSource("S", reflected, ReflectVector(normals))
        V1 == RankineSource("V", reflected, ReflectVector(normals))
    IN  [S |-> IF depth = Infty THEN Negated(S1) ELSE S1,
         V |-> IF depth = Infty THEN Negated(V1) ELSE V1,
         faces_centers |-> centers, faces_normals |-> normals]

\* the centres and normals of the faces of mesh1
FaceCenters == { <<1, 2, z>> : z \in (-MaxZ)..0 }

FaceNormals == { <<1, 0, 0>>, <<0, 0, 1>>, <<0, 0, -1>> }

\* the free surfaces and sea bottoms of the image-term calls: the default
\* path calls the term with a finite free surface only
ImageFreeSurfaces == {0, 1}

ImageSeaBottoms == {-Infty, -MaxZ - 1}

InitImage ==
    /\ SolverIdle
    /\ ResultsIdle
    /\ BatchIdle
    /\ FitIdle
    /\ SymIdle
    /\ \E n \in 1..MaxFaces :
          /\ faces_centers \in [1..n -> FaceCenters]
          /\ faces_normals \in [1..n -> FaceNormals]
    /\ image \in [op : {"called"}, free_surface : ImageFreeSurfaces,
                  sea_bottom : ImageSeaBottoms]

\* _build_matrices_1(mesh1, mesh2, free_surface, sea_bottom)
ImageTerm ==
    /\ image.op = "called"
    /\ LET r == ImageSource(faces_centers, faces_normals,
                            image.free_surface, image.sea_bottom)
       IN  /\ faces_centers' = r.faces_centers
           /\ faces_normals' = r.faces_normals
           /\ image' = [op |-> "returned",
                        free_surface |-> image.free_surface,
                        sea_bottom |-> image.sea_bottom,
                        centers_before |-> faces_centers,
                        normals_before |-> faces_normals,
                        S |-> r.S, V |-> r.V]
    /\ UNCHANGED <<vars, notImage>>

NextImage == ImageTerm

SpecImage == InitImage /\ [][NextImage]_<<vars, others>>

\* C11: the image term calls the free-space kernel on the face centres of
\* mesh1 reflected across z = free_surface when the depth is infinite and
\* across z = sea_bottom when it is finite, and on the normals with their z
\* component negated in both cases; it negates both returned matrices in
\* the infinite-depth case only, and leaves the face centres and normals of
\* mesh1 as they were.
C11_ImageTerm ==
    image.op = "returned" =>
        LET infinite == image.sea_bottom = -Infty
            z0 == IF infinite THEN image.free_surface ELSE image.sea_bottom
            n == Len(image.centers_before)
        IN  /\ \A M \in {image.S, image.V} :
                  /\ M.kernel = "rankine"
                  /\ Len(M.centers) = n
                  /\ Len(M.normals) = n
                  /\ \A i \in 1..n :
                        /\ M.centers[i][1] = image.centers_before[i][1]
                        /\ M.centers[i][2] = image.centers_before[i][2]
                        /\ M.centers[i][3] + image.centers_before[i][3] = 2 * z0
                        /\ M.normals[i][1] = image.normals_before[i][1]
                        /\ M.normals[i][2] = image.normals_before[i][2]
                        /\ M.normals[i][3] = -image.normals_before[i][3]
                  /\ M.sign = IF infinite THEN -1 ELSE 1
            /\ faces_centers = image.centers_before
            /\ faces_normals = image.normals_before

\* a finite-depth call on a face below the free surface with a vertical
\* normal: the centre is mirrored across the sea bottom, nothing is negated
C11_Witness ==
    /\ image.op = "returned"
    /\ image.sea_bottom = -MaxZ - 1
    /\ image.centers_before[1][3] = -1
    /\ image.normals_before[1][3] = 1
    /\ image.S.centers[1][3] = 2 * image.sea_bottom + 1
    /\ image.S.normals[1][3] = -1
    /\ image.V.sign = 1

(***************************************************************************)
(* Results and the computations made on them afterwards.                   *)
(***************************************************************************)
\* the value of result.sources and result.potential when solve stored none
NoSources == "None"

NoCall == [branch |-> "none"]

\* problem.make_results_container(), with what solve stored on it
Result(problem, keep_details, sources) ==
    [body |-> problem.body, free_surface |-> problem.free_surface,
     sea_bottom |-> problem.sea_bottom, omega |-> problem.omega,
     wavenumber |-> problem.wavenumber, keep_details |-> keep_details,
     sources |-> sources,
     potential |-> IF sources = NoSources THEN NoSources ELSE "potential",
     fs_elevation |-> {}]

\* variant: the sources are looked at only when S @ result.sources needs
\* them, after the matrices are built
GetPotentialOnMeshChecksLate(self, result, mesh) ==
    LET r == BuildMatrices(self, mesh, result.body, result.free_surface,
                           result.sea_bottom, result.wavenumber, FALSE)
    IN  IF r.raised
        THEN [raised |-> "StopIteration", cache |-> r.cache, call |-> r.call,
              phi |-> "none"]
        ELSE IF result.sources = NoSources
        THEN [raised |-> "sources", cache |-> r.cache, call |-> r.call,
              phi |-> "none"]
        ELSE [raised |-> "none", cache |-> r.cache, call |-> r.call,
              phi |-> [S |-> r.S, sources |-> result.sources]]

\* get_potential_on_mesh(result, mesh): the exception raised if any, the
\* per-block store afterwards, the call of build_matrices and the potential
GetPotentialOnMesh(self, result, mesh) ==
    IF result.sources = NoSources
    THEN [raised |-> "sources", cache |-> self.cache, call |-> NoCall,
          phi |-> "none"]
    ELSE LET r == BuildMatrices(self, mesh, result.body, result.free_surface,
                                result.sea_bottom, result.wavenumber, FALSE)
         IN  [raised |-> IF r.raised THEN "StopIteration" ELSE "none",
              cache |-> r.cache, call |-> r.call,
              phi |-> IF r.raised THEN "none"
                      ELSE [S |-> r.S, sources |-> result.sources]]

\* compute_Kochin(result, theta)
ComputeKochin(result) ==
    IF result.sources = NoSources
    THEN [raised |-> "sources", value |-> "none"]
    ELSE [raised |-> "none", value |-> [kochin_of |-> result.sources]]

\* the problems whose results are kept
DetailProblems ==
    { Problem(P1, 0, -1, 1), Problem(P1, 0, -1, 2), Problem(P1, 0, -Infty, 1) }

\* the mesh of a meshed free surface
FS == Mesh("FS")

\* the meshes the potential is computed on
PotentialMeshes == {P2, R1}

\* result = solver.solve(problem, keep_details)
SolveKept ==
    \E problem \in DetailProblems, keep_details \in BOOLEAN :
        /\ Len(results) < MaxResults
        /\ SolveStep(problem, keep_details)
        /\ results' = IF last'.raised THEN results
                      ELSE Append(results,
                                  Result(problem, keep_details, last'.sources))
        /\ UNCHANGED notResults

\* what a later computation leaves in `last`
Later(op, result, raised, call) ==
    [op |-> op, result |-> result, raised |-> raised, call |-> call,
     store_before |-> exponential_decompositions, cache_before |-> cache,
     results_before |-> results]

\* solver.get_potential_on_mesh(result, mesh)
PotentialOnMesh ==
    \E i \in 1..Len(results), mesh \in PotentialMeshes :
        LET r == GetPotentialOnMesh(Self(exponential_decompositions),
                                    results[i], mesh)
        IN  /\ ncalls < MaxCalls
            /\ ncalls' = ncalls + 1
            /\ cache' = r.cache
            /\ last' = Later("get_potential_on_mesh", results[i], r.raised,
                             r.call)
            /\ UNCHANGED <<max_length, use_cache, exponential_decompositions,
                           touched, inserted, others>>

\* solver.get_free_surface_elevation(result, free_surface, keep_details)
FreeSurfaceElevation ==
    \E i \in 1..Len(results), keep_details \in BOOLEAN :
        LET r == GetPotentialOnMesh(Self(exponential_decompositions),
                                    results[i], FS)
        IN  /\ ncalls < MaxCalls
            /\ ncalls' = ncalls + 1
            /\ cache' = r.cache
            /\ last' = Later("get_free_surface_elevation", results[i],
                             r.raised, r.call)
            /\ results' = IF keep_details /\ r.raised = "none"
                          THEN [results EXCEPT ![i].fs_elevation = @ \cup {FS.name}]
                          ELSE results
            /\ UNCHANGED <<max_length, use_cache, exponential_decompositions,
                           touched, inserted, notResults>>

\* compute_Kochin(result, theta)
Kochin ==
    \E i \in 1..Len(results) :
        LET r == ComputeKochin(results[i])
        IN  /\ ncalls < MaxCalls
            /\ ncalls' = ncalls + 1
            /\ last' = Later("compute_Kochin", results[i], r.raised, NoCall)
            /\ UNCHANGED <<max_length, use_cache, exponential_decompositions,
                           cache, touched, inserted, others>>

NextDetails == SolveKept \/ PotentialOnMesh \/ FreeSurfaceElevation \/ Kochin

SpecDetails == Init /\ [][NextDetails]_<<vars, others>>

LaterOps ==
    {"get_potential_on_mesh", "get_free_surface_elevation", "compute_Kochin"}

\* C12: solve stores sources and potential on the result exactly when
\* keep_details is true; a later get_potential_on_mesh,
\* get_free_surface_elevation or compute_Kochin on a result without sources
\* fails with the "sources cannot be found" error before any matrix is
\* built, the decomposition store, the per-block store and the results
\* unchanged; on a result solved with keep_details it never fails with that
\* error.
C12_SourcesNeeded ==
    /\ \A i \in 1..Len(results) :
          /\ (results[i].sources # NoSources) <=> results[i].keep_details
          /\ (results[i].potential # NoSources) <=> results[i].keep_details
    /\ last.op \in LaterOps =>
          /\ last.result.sources = NoSources =>
                /\ last.raised = "sources"
                /\ last.call = NoCall
                /\ exponential_decompositions = last.store_before
                /\ cache = last.cache_before
                /\ results = last.results_before
          /\ last.result.keep_details => last.raised # "sources"

\* the free surface elevation asked, with keep_details, of a result solved
\* without details on a solver that stores its blocks
C12_Witness ==
    /\ last.op = "get_free_surface_elevation"
    /\ use_cache
    /\ ~last.result.keep_details
    /\ last.raised = "sources"
    /\ exponential_decompositions # <<>>
    /\ cache = last.cache_before

(***************************************************************************)
(* solve_all: a pool of processes maps solve over the sorted problems.     *)
(* A task is handed to a free process in the order of the sorted sequence; *)
(* a process runs self.solve on the solver it received with the task and   *)
(* the pool collects the outcomes by position.                             *)
(***************************************************************************)
\* problem < other, the order sorted() relies on: by frequency, then by
\* sea bottom
Less(p, q) ==
    \/ p.omega < q.omega
    \/ (p.omega = q.omega /\ p.sea_bottom < q.sea_bottom)

\* seq with p put before the first element greater than p
InsertSorted(seq, p) ==
    LET greater == {i \in 1..Len(seq) : Less(p, seq[i])}
        at == IF greater = {} THEN Len(seq) + 1
              ELSE CHOOSE i \in greater : \A j \in greater : i <= j
    IN  SubSeq(seq, 1, at - 1) \o <<p>> \o SubSeq(seq, at, Len(seq))

\* sorted(problems): ascending and stable
RECURSIVE Sorted(_)
Sorted(problems) ==
    IF problems = <<>> THEN <<>>
    ELSE InsertSorted(Sorted(SubSeq(problems, 1, Len(problems) - 1)),
                      problems[Len(problems)])

\* the problems of a batch
BatchProblems == { Problem(P1, 0, -1, 1), Problem(P1, 0, -1, 2) }

BatchInputs == UNION { [1..n -> BatchProblems] : n \in 1..MaxBatch }

NoSolver == [use_cache |-> FALSE]

\* variant: the processes run solve on the solver of the caller itself, as
\* the threads of a thread pool would
SolveReceiverShared(w) == "parent"

\* the solver a process runs self.solve on: the bound method travels to the
\* process of a multiprocessing.Pool with a copy of the solver
SolveReceiver(w) == "copy"

\* the solver as process w sees it
WorkerSelf(w) ==
    IF SolveReceiver(w) = "copy" THEN workers[w].solver
    ELSE Self(exponential_decompositions)

\* solver.solve_all(problems, processes), up to pool.map
StartBatch ==
    \E problems \in BatchInputs, processes \in 1..MaxWorkers :
        /\ batch.op = "none"
        /\ batch' = [op |-> "running", input |-> problems,
                     processes |-> processes, tasks |-> Sorted(problems),
                     store_before |-> exponential_decompositions,
                     cache_before |-> cache, results |-> <<>>]
        /\ slots' = [i \in 1..Len(problems) |-> [state |-> "queued"]]
        /\ workers' = [w \in 1..processes |->
                          [state |-> "free", task |-> 0, solver |-> NoSolver]]
        /\ UNCHANGED <<vars, notBatch>>

\* a solve of the caller before the batch
BatchPriming ==
    /\ batch.op = "none"
    /\ SolvePriming

\* a free process takes the next task of the queue; a task that opens a
\* chunk comes with a fresh copy of the caller's solver, a task inside a
\* chunk runs on the copy the process already has
TakeTask(w) ==
    LET queued == {i \in 1..Len(slots) : slots[i].state = "queued"}
        i == CHOOSE k \in queued : \A j \in queued : k <= j
    IN  /\ batch.op = "running"
        /\ workers[w].state = "free"
        /\ queued # {}
        /\ \E fresh \in BOOLEAN :
              /\ workers[w].solver = NoSolver => fresh
              /\ workers' = [workers EXCEPT ![w] =
                    [state |-> "taken", task |-> i,
                     solver |-> IF fresh THEN Self(exponential_decompositions)
                                ELSE workers[w].solver]]
        /\ slots' = [slots EXCEPT ![i] = [state |-> "taken"]]
        /\ UNCHANGED <<vars, batch, notBatch>>

\* solve in process w, lines 86-87: the decomposition of the problem
WorkerFit(w) ==
    /\ batch.op = "running"
    /\ workers[w].state = "taken"
    /\ LET pb == batch.tasks[workers[w].task]
           self == WorkerSelf(w)
           d == IF ProblemDepth(pb) < Infty
                THEN ComputeExponentialDecomposition(
                         self.exponential_decompositions, max_length, pb)
                ELSE [dict |-> self.exponential_decompositions,
                      fitted |-> FALSE]
       IN  IF SolveReceiver(w) = "copy"
           THEN /\ workers' = [workers EXCEPT
                      ![w].state = "fitted",
                      ![w].solver.exponential_decompositions = d.dict]
                /\ UNCHANGED exponential_decompositions
           ELSE /\ workers' = [workers EXCEPT ![w].state = "fitted"]
                /\ exponential_decompositions' = d.dict
    /\ UNCHANGED <<max_length, use_cache, cache, touched, inserted, ncalls,
                   last, batch, slots, notBatch>>

\* solve in process w, from line 93 on: the matrices and the result
WorkerBuild(w) ==
    /\ batch.op = "running"
    /\ workers[w].state = "fitted"
    /\ LET pb == batch.tasks[workers[w].task]
           self == WorkerSelf(w)
           r == BuildMatrices(self, pb.body, pb.body, pb.free_surface,
                              pb.sea_bottom, pb.wavenumber, FALSE)
       IN  /\ slots' = [slots EXCEPT ![workers[w].task] =
                 [state |-> "done", problem |-> pb, worker |-> w,
                  raised |-> r.raised,
                  consumed |-> { t.value.decomposition :
                                   t \in { u \in WaveEvaluations(r.call) :
                                             ~u.raised } },
                  meanwhile |-> { v \in DOMAIN workers :
                                    v # w /\ workers[v].state = "fitted" }]]
           /\ IF SolveReceiver(w) = "copy"
              THEN /\ workers' = [workers EXCEPT ![w].state = "free",
                                                 ![w].solver.cache = r.cache]
                   /\ UNCHANGED cache
              ELSE /\ workers' = [workers EXCEPT ![w].state = "free"]
                   /\ cache' = r.cache
    /\ UNCHANGED <<max_length, use_cache, exponential_decompositions, touched,
                   inserted, ncalls, last, batch, notBatch>>

\* pool.map returns the outcomes by position, or raises what a task raised;
\* leaving the with block ends the processes
ReturnBatch ==
    /\ batch.op = "running"
    /\ \A i \in 1..Len(slots) : slots[i].state = "done"
    /\ batch' = [batch EXCEPT
                   !.op = IF \E i \in 1..Len(slots) : slots[i].raised
                          THEN "raised" ELSE "returned",
                   !.results = IF \E i \in 1..Len(slots) : slots[i].raised
                               THEN <<>>
                               ELSE [i \in 1..Len(slots) |->
                                        [problem |-> slots[i].problem]]]
    /\ workers' = <<>>
    /\ UNCHANGED <<vars, slots, notBatch>>

TakeAny == \E w \in DOMAIN workers : TakeTask(w)

FitAny == \E w \in DOMAIN workers : WorkerFit(w)

BuildAny == \E w \in DOMAIN workers : WorkerBuild(w)

NextBatch ==
    BatchPriming \/ StartBatch \/ TakeAny \/ FitAny \/ BuildAny \/ ReturnBatch

SpecBatch == Init /\ [][NextBatch]_<<vars, others>>

\* C13: solve_all returns one result per input problem, the i-th result
\* being the result of the i-th problem of the input sequence, for every
\* input order, number of processes and completion order.
C13_ResultsInInputOrder ==
    batch.op = "returned" =>
        /\ Len(batch.results) = Len(batch.input)
        /\ \A i \in 1..Len(batch.input) :
              batch.results[i].problem = batch.input[i]

\* C14: during solve_all the processes act on copies of the solver: the
\* decomposition store and the per-block store of the caller are the same
\* throughout and afterwards as before, and whatever the interleaving the
\* finite-depth wave term of a task consumes only the decomposition of the
\* task's own key, never one that another process inserted or promoted.
C14_WorkersActOnCopies ==
    batch.op # "none" =>
        /\ exponential_decompositions = batch.store_before
        /\ cache = batch.cache_before
        /\ \A i \in 1..Len(slots) :
              (slots[i].state = "done"
                 /\ ProblemDepth(slots[i].problem) < Infty) =>
                  /\ slots[i].raised <=> (max_length = 0)
                  /\ slots[i].consumed
                         \subseteq {FittedDecomposition(ProblemKey(slots[i].problem))}

\* two processes, two finite-depth problems of different keys: one built
\* its matrices after the other had fitted its decomposition and before it
\* built its own
C14_Witness ==
    /\ batch.op = "returned"
    /\ Len(slots) = 2
    /\ slots[1].worker # slots[2].worker
    /\ ProblemDepth(slots[1].problem) < Infty
    /\ ProblemDepth(slots[2].problem) < Infty
    /\ ProblemKey(slots[1].problem) # ProblemKey(slots[2].problem)
    /\ slots[1].meanwhile # {}
    /\ slots[1].consumed # {}
    /\ slots[2].consumed # {}

(***************************************************************************)
(* The fitting loop of _compute_exponential_decomposition (lines 171-194). *)
(* The fitted function and the two numerical routines are opaque: what a   *)
(* fit returns is a pair of arrays of symbolic coefficients, and whether    *)
(* its validation error is below 1e-4 is given, per term count, by the      *)
(* variable `profile`.                                                      *)
(***************************************************************************)
\* range(4, 31, 2)
FirstCount == 4

StopCount == 31

CountStep == 2

RECURSIVE Range(_, _, _)
Range(start, stop, step) ==
    IF start >= stop THEN <<>>
    ELSE <<start>> \o Range(start + step, stop, step)

TermCounts == Range(FirstCount, StopCount, CountStep)

\* np.linspace(-0.1, 20.0, num)
Linspace(num) == [from |-> "-0.1", to |-> "20.0", num |-> num]

\* exponential_decomposition(X, f(X), n_exp): amplitudes and exponents of
\* n_exp terms
ExponentialDecomposition(X, n_exp) ==
    [n_exp |-> n_exp, X |-> X,
     a |-> [i \in 1..n_exp |-> <<"a", n_exp, i>>],
     lamda |-> [i \in 1..n_exp |-> <<"lamda", n_exp, i>>]]

\* error_exponential_decomposition(X, f(X), a, lamda) < 1e-4
ErrorBelowTolerance(errors, X, fit) == errors[fit.n_exp]

\* variant: an accepted fit does not end the loop
RECURSIVE FitLoopNoBreak(_, _, _)
FitLoopNoBreak(counts, errors, tried) ==
    IF counts = <<>>
    THEN [fit |-> tried[Len(tried)].fit, tried |-> tried,
          warned |-> ~tried[Len(tried)].accepted]
    ELSE LET n_exp == Head(counts)
             fit == ExponentialDecomposition(Linspace(4 * n_exp + 1), n_exp)
             X == Linspace(8 * n_exp + 1)
         IN  FitLoopNoBreak(Tail(counts), errors,
                 Append(tried, [n_exp |-> n_exp, fit |-> fit,
                                validated_on |-> X,
                                accepted |-> ErrorBelowTolerance(errors, X, fit)]))

\* the for loop over the term counts still to try, with its else clause:
\* the fit kept, the attempts made and whether the warning was logged
RECURSIVE FitLoop(_, _, _)
FitLoop(counts, errors, tried) ==
    IF counts = <<>>
    THEN [fit |-> tried[Len(tried)].fit, tried |-> tried, warned |-> TRUE]
    ELSE LET n_exp == Head(counts)
             fit == ExponentialDecomposition(Linspace(4 * n_exp + 1), n_exp)
             X == Linspace(8 * n_exp + 1)
             attempt == [n_exp |-> n_exp, fit |-> fit, validated_on |-> X,
                         accepted |-> ErrorBelowTolerance(errors, X, fit)]
         IN  IF attempt.accepted
             THEN [fit |-> fit, tried |-> Append(tried, attempt),
                   warned |-> FALSE]
             ELSE FitLoop(Tail(counts), errors, Append(tried, attempt))

\* variant: the arrays are expanded to the largest term count
ZeroPaddedToLargestCount(array) ==
    array \o [i \in 1..(StopCount - 1 - Len(array)) |-> 0]

\* np.r_[a, np.zeros(31-len(a))]
ZeroPadded(array) ==
    array \o [i \in 1..(NExpSlots - Len(array)) |-> 0]

\* the pair (a, lamda) stored at line 194
PaddedDecomposition(fit) ==
    [a |-> ZeroPadded(fit.a), lamda |-> ZeroPadded(fit.lamda)]

\* the problem whose decomposition is fitted
FitProblem == Problem(P1, 0, -1, 1)

InitFit ==
    /\ max_length \in 0..MaxCap
    /\ use_cache = FALSE
    /\ exponential_decompositions = <<>>
    /\ cache = EmptyCache
    /\ touched = <<>>
    /\ inserted = <<>>
    /\ ncalls = 0
    /\ last = [op |-> "init"]
    /\ ImageIdle
    /\ ResultsIdle
    /\ BatchIdle
    /\ SymIdle
    /\ profile \in [{TermCounts[i] : i \in 1..Len(TermCounts)} -> BOOLEAN]
    /\ fitting = [op |-> "none"]

\* _compute_exponential_decomposition(pb), the key absent
FitMiss ==
    LET key == ProblemKey(FitProblem)
        r == FitLoop(TermCounts, profile, <<>>)
        value == PaddedDecomposition(r.fit)
    IN  /\ fitting.op = "none"
        /\ ~Contains(exponential_decompositions, key)
        /\ exponential_decompositions'
               = SetItem(exponential_decompositions, key, value, max_length)
        /\ fitting' = [op |-> "fit", tried |-> r.tried, warned |-> r.warned,
                       raised |-> FALSE, assigned |-> value]
        /\ UNCHANGED <<max_length, use_cache, cache, touched, inserted, ncalls,
                       last, profile, notFit>>

\* the wave term of the problem, evaluated next
FitWave ==
    LET t == WaveSource(Self(exponential_decompositions), P1, P1,
                        FitProblem.free_surface, FitProblem.sea_bottom,
                        FitProblem.wavenumber)
    IN  /\ fitting.op = "fit"
        /\ fitting' = [op |-> "wave", tried |-> fitting.tried,
                       warned |-> fitting.warned, raised |-> t.raised,
                       assigned |-> fitting.assigned, wave |-> t.value]
        /\ UNCHANGED <<vars, profile, notFit>>

NextFit == FitMiss \/ FitWave

SpecFit == InitFit /\ [][NextFit]_<<vars, others>>

\* C15: for an absent key the loop tries the term counts 4, 6, 8, ... in
\* increasing order up to 30, fits on 4n+1 samples and validates on 8n+1
\* samples of the same interval, and stops at the first count whose
\* validation error is below 1e-4; if none is accepted it logs a warning,
\* raises nothing, and the fit of the last count tried, 30, is the one
\* stored.
C15_FittingLoop ==
    fitting.op = "fit" =>
        LET tried == fitting.tried
            m == Len(tried)
        IN  /\ m >= 1
            /\ m <= 14
            /\ \A i \in 1..m :
                  /\ tried[i].n_exp = 4 + 2 * (i - 1)
                  /\ tried[i].n_exp <= 30
                  /\ tried[i].fit.X = [from |-> "-0.1", to |-> "20.0",
                                       num |-> 4 * tried[i].n_exp + 1]
                  /\ tried[i].validated_on = [from |-> "-0.1", to |-> "20.0",
                                              num |-> 8 * tried[i].n_exp + 1]
                  /\ tried[i].accepted = profile[tried[i].n_exp]
                  /\ tried[i].accepted => i = m
            /\ ~fitting.raised
            /\ fitting.warned <=> (\A n \in DOMAIN profile : ~profile[n])
            /\ ~fitting.warned => tried[m].accepted
            /\ fitting.warned => tried[m].n_exp = 30
            /\ \A i \in 1..tried[m].n_exp :
                  /\ fitting.assigned.a[i] = tried[m].fit.a[i]
                  /\ fitting.assigned.lamda[i] = tried[m].fit.lamda[i]
            /\ max_length >= 1 =>
                  /\ exponential_decompositions # <<>>
                  /\ LastValue(exponential_decompositions) = fitting.assigned

\* no count is accepted: fourteen attempts, the warning, and the fit of 30
\* terms in the store
C15_Witness ==
    /\ fitting.op = "fit"
    /\ fitting.warned
    /\ Len(fitting.tried) = 14
    /\ max_length >= 1
    /\ LastValue(exponential_decompositions).a[30] = <<"a", 30, 30>>

\* C19: every stored decomposition is a pair of arrays of length exactly 31
\* whatever term count the fit stopped at: the first n positions hold the
\* fitted coefficients, the others are zero; the slot count handed to the
\* wave kernel is always 31.
C19_PaddedTo31 ==
    /\ fitting.op \in {"fit", "wave"} =>
          LET n == fitting.tried[Len(fitting.tried)].n_exp
          IN  /\ n \in {4 + 2 * j : j \in 0..13}
              /\ \A i \in 1..Len(exponential_decompositions) :
                    LET value == exponential_decompositions[i].value
                    IN  /\ Len(value.a) = 31
                        /\ Len(value.lamda) = 31
                        /\ \A j \in 1..n :
                              /\ value.a[j] = <<"a", n, j>>
                              /\ value.lamda[j] = <<"lamda", n, j>>
                        /\ \A j \in (n + 1)..31 :
                              /\ value.a[j] = 0
                              /\ value.lamda[j] = 0
    /\ (fitting.op = "wave" /\ ~fitting.raised) =>
          /\ fitting.wave.n_exp = 31
          /\ Len(fitting.wave.decomposition.a) = 31
          /\ Len(fitting.wave.decomposition.lamda) = 31

\* a fit accepted at 6 terms, stored and handed to the wave kernel: 25
\* zeros after the 6 coefficients
C19_Witness ==
    /\ fitting.op = "wave"
    /\ ~fitting.raised
    /\ fitting.tried[Len(fitting.tried)].n_exp = 6
    /\ fitting.wave.decomposition.a[6] = <<"a", 6, 6>>
    /\ fitting.wave.decomposition.a[7] = 0
    /\ fitting.wave.decomposition.lamda[31] = 0
    /\ fitting.wave.n_exp = 31


(***************************************************************************)
(* The recursion of build_matrices on nested composites.                   *)
(***************************************************************************)
\* the larger of two numbers
Larger(a, b) == IF a >= b THEN a ELSE b

Smaller(a, b) == IF a <= b THEN a ELSE b

RECURSIVE DeepestFrom(_, _, _)
\* the largest of f[i], ..., f[Len(f)] and acc
DeepestFrom(f, i, acc) ==
    IF i > Len(f) THEN acc ELSE DeepestFrom(f, i + 1, Larger(acc, f[i]))

RECURSIVE NestingDepth(_)
\* how deep the composites of a mesh are nested: 0 for a plain mesh
NestingDepth(mesh) ==
    IF mesh.submeshes = <<>> THEN 0
    ELSE 1 + DeepestFrom([i \in 1..Len(mesh.submeshes) |->
                              NestingDepth(mesh.submeshes[i])], 1, 0)

RECURSIVE Height(_)
\* the longest chain of recursive calls below a call
Height(call) ==
    IF call.calls = <<>> THEN 0
    ELSE 1 + DeepestFrom([i \in 1..Len(call.calls) |->
                              Height(call.calls[i])], 1, 0)

\* C18: build_matrices terminates on nested composites.  In the tree of
\* calls of every direct call: each call takes the branch the dispatch gives
\* for its own arguments; each recursive call is made on the first sub-mesh
\* of the caller's mesh1 and on a sub-mesh of the caller's mesh2, both of
\* strictly smaller nesting depth than the caller's, with the other
\* arguments passed on unchanged; a call makes no recursive call exactly
\* when it takes the default path; and no chain of recursive calls is longer
\* than the nesting depth of either mesh of the direct call.
C18_RecursionDescends ==
    last.op = "build_matrices" =>
        /\ \A n \in Nodes(last.call) :
              /\ n.branch = Branch(n.mesh1, n.mesh2, n.force_full_computation)
              /\ (n.calls = <<>>) <=> (n.branch = "default")
              /\ \A i \in 1..Len(n.calls) :
                    LET c == n.calls[i]
                    IN  /\ c.mesh1 = n.mesh1.submeshes[1]
                        /\ \E j \in 1..Len(n.mesh2.submeshes) :
                              c.mesh2 = n.mesh2.submeshes[j]
                        /\ NestingDepth(c.mesh1) < NestingDepth(n.mesh1)
                        /\ NestingDepth(c.mesh2) < NestingDepth(n.mesh2)
                        /\ c.free_surface = n.free_surface
                        /\ c.sea_bottom = n.sea_bottom
                        /\ c.wavenumber = n.wavenumber
                        /\ c.force_full_computation = n.force_full_computation
              /\ Height(n) <= Smaller(NestingDepth(n.mesh1),
                                      NestingDepth(n.mesh2))
        /\ \E n \in Nodes(last.call) : n.calls = <<>> /\ n.branch = "default"

\* a call on a composite of composites: the recursive calls are made on
\* matching composites, which dispatch again, down to plain meshes
C18_Witness ==
    /\ last.op = "build_matrices"
    /\ ~last.raised
    /\ last.call.branch = "reflection"
    /\ Height(last.call) = 2
    /\ \A i \in 1..Len(last.call.calls) :
          /\ last.call.calls[i].branch = "translation"
          /\ \A j \in 1..Len(last.call.calls[i].calls) :
                /\ last.call.calls[i].calls[j].branch = "default"
                /\ NestingDepth(last.call.calls[i].calls[j].mesh2) = 0

(***************************************************************************)
(* The symmetric meshes: construction, transformation in place, assembly.  *)
(***************************************************************************)
\* arguments of another type than the constructors expect
NotAMesh == [kind |-> "str"]

NotAPlane == [type |-> "tuple"]

NotAnAxis == [type |-> "tuple"]

\* a Plane of normal `normal` through the origin
Plane(normal) == [normal |-> normal, c |-> 0]

xOy_Plane == Plane(<<0, 0, 1>>)

\* an Axis of direction `vector` through the origin
Axis(vector) == [vector |-> vector, point |-> NoVec]

Ox_axis == Axis(<<1, 0, 0>>)

Oy_axis == Axis(<<0, 1, 0>>)

Oz_axis == Axis(<<0, 0, 1>>)

\* numbers with their Python type
IntNumber(value) == [type |-> "int", value |-> value]

FloatNumber(value) == [type |-> "float", value |-> value]

\* isinstance(mesh, Mesh) or isinstance(mesh, CollectionOfMeshes)
IsMeshOrCollection(mesh) ==
    mesh.kind \in {"Mesh", "ReflectionSymmetry", "TranslationalSymmetry",
                   "AxialSymmetry"}

\* isinstance(plane, Plane)
IsPlane(plane) == DOMAIN plane = {"normal", "c"}

\* isinstance(axis, Axis)
IsAxis(axis) == DOMAIN axis = {"vector", "point"}

\* axis.rotation_matrix(angle) @ vector, for an axis of coordinates through
\* the origin and an angle of one quarter turn
QuarterTurn(axis, vector) ==
    IF axis.vector = <<1, 0, 0>>
    THEN <<vector[1], -vector[3], vector[2]>>
    ELSE IF axis.vector = <<0, 1, 0>>
    THEN <<vector[3], vector[2], -vector[1]>>
    ELSE <<-vector[2], vector[1], vector[3]>>

RECURSIVE RotateVec(_, _, _)
\* axis.rotation_matrix(angle) @ vector, the angle in quarter turns
RotateVec(axis, angle, vector) ==
    IF angle = 0 THEN vector
    ELSE RotateVec(axis, angle - 1, QuarterTurn(axis, vector))

\* Plane.rotate(axis, angle), the axis through the origin: the normal turns
\* with the plane, the offset stays
PlaneRotate(plane, axis, angle) ==
    [plane EXCEPT !.normal = RotateVec(axis, angle, plane.normal)]

RECURSIVE Translate(_, _)
\* translate(vector), in place: the object keeps its identity; a
\* ReflectionSymmetry moves its plane, a TranslationalSymmetry keeps its
\* translation, and CollectionOfMeshes.translate moves the sub-meshes
Translate(mesh, vector) ==
    [mesh EXCEPT
        !.plane = IF mesh.kind = "ReflectionSymmetry"
                  THEN PlaneTranslate(mesh.plane, vector) ELSE @,
        !.submeshes = [i \in 1..Len(mesh.submeshes) |->
                           Translate(mesh.submeshes[i], vector)]]

RECURSIVE Rotate(_, _, _)
\* rotate(axis, angle), in place: a ReflectionSymmetry rotates its plane, a
\* TranslationalSymmetry multiplies its translation by the rotation matrix,
\* and CollectionOfMeshes.rotate turns the sub-meshes
Rotate(mesh, axis, angle) ==
    [mesh EXCEPT
        !.plane = IF mesh.kind = "ReflectionSymmetry"
                  THEN PlaneRotate(mesh.plane, axis, angle) ELSE @,
        !.translation = IF mesh.kind = "TranslationalSymmetry"
                        THEN RotateVec(axis, angle, mesh.translation) ELSE @,
        !.submeshes = [i \in 1..Len(mesh.submeshes) |->
                           Rotate(mesh.submeshes[i], axis, angle)]]

RECURSIVE Mirror(_, _)
\* mirror(plane), in place: a ReflectionSymmetry mirrors its plane, a
\* TranslationalSymmetry reflects its translation, and
\* CollectionOfMeshes.mirror mirrors the sub-meshes
Mirror(mesh, plane) ==
    [mesh EXCEPT
        !.plane = IF mesh.kind = "ReflectionSymmetry"
                  THEN PlaneMirror(mesh.plane, plane) ELSE @,
        !.translation = IF mesh.kind = "TranslationalSymmetry"
                        THEN MirrorVec(mesh.translation, plane) ELSE @,
        !.submeshes = [i \in 1..Len(mesh.submeshes) |->
                           Mirror(mesh.submeshes[i], plane)]]

\* what a constructor call gives: the exception or the new object
Raised(exception) == [raised |-> exception, returned |-> NoComposite]

Returned(mesh) == [raised |-> "none", returned |-> mesh]

\* ReflectionSymmetry(half, plane, name): the three assertions, then the
\* object
NewReflectionSymmetry(half, plane, name) ==
    IF ~IsMeshOrCollection(half) THEN Raised("AssertionError")
    ELSE IF ~IsPlane(plane) THEN Raised("AssertionError")
    ELSE IF plane.normal[3] # 0 THEN Raised("AssertionError")
    ELSE Returned(ReflectionSymmetry(half, plane, name))

\* variant: the translation is not tested for being horizontal
NewTranslationalSymmetryAnyVector(mesh_slice, translation, nb_repetitions, name) ==
    IF ~IsMeshOrCollection(mesh_slice) THEN Raised("AssertionError")
    ELSE IF nb_repetitions.type # "int" THEN Raised("AssertionError")
    ELSE IF ~(nb_repetitions.value >= 1) THEN Raised("AssertionError")
    ELSE IF Len(translation) # 3 THEN Raised("AssertionError")
    ELSE Returned(TranslationalSymmetry(mesh_slice, translation,
                                        nb_repetitions.value, name))

\* TranslationalSymmetry(mesh_slice, translation, nb_repetitions, name):
\* the five assertions, then the object
NewTranslationalSymmetry(mesh_slice, translation, nb_repetitions, name) ==
    IF ~IsMeshOrCollection(mesh_slice) THEN Raised("AssertionError")
    ELSE IF nb_repetitions.type # "int" THEN Raised("AssertionError")
    ELSE IF ~(nb_repetitions.value >= 1) THEN Raised("AssertionError")
    ELSE IF Len(translation) # 3 THEN Raised("AssertionError")
    ELSE IF translation[3] # 0 THEN Raised("AssertionError")
    ELSE Returned(TranslationalSymmetry(mesh_slice, translation,
                                        nb_repetitions.value, name))

\* AxialSymmetry(mesh_slice, axis, nb_repetitions, name): the four
\* assertions, then the object; an axis other than Oz is only warned about
NewAxialSymmetry(mesh_slice, axis, nb_repetitions, name) ==
    IF ~IsMeshOrCollection(mesh_slice) THEN Raised("AssertionError")
    ELSE IF nb_repetitions.type # "int" THEN Raised("AssertionError")
    ELSE IF ~(nb_repetitions.value >= 1) THEN Raised("AssertionError")
    ELSE IF ~IsAxis(axis) THEN Raised("AssertionError")
    ELSE Returned(AxialSymmetry(mesh_slice, nb_repetitions.value, name))

\* the arguments the constructors are called with
Halves == {P1, NotAMesh}

Planes == {xOz_Plane, xOy_Plane, NotAPlane}

Translations == {<<1, 0, 0>>, <<0, 0, 1>>, <<1, 0>>}

Counts == {IntNumber(0), IntNumber(1), FloatNumber(2)}

Axes == {Oz_axis, NotAnAxis}

\* the arguments of the transformations
Vectors == {<<0, 1, 0>>, <<0, 0, 1>>}

RotationAxes == {Ox_axis, Oy_axis, Oz_axis}

QuarterTurns == {1}

MirrorPlanes == {xOz_Plane, xOy_Plane}

\* the constructor `op` called with the arguments `args`, in the order of
\* its signature
Call(op, args) ==
    CASE op = "ReflectionSymmetry" ->
             NewReflectionSymmetry(args[1], args[2], "S")
      [] op = "TranslationalSymmetry" ->
             NewTranslationalSymmetry(args[1], args[2], args[3], "S")
      [] op = "AxialSymmetry" ->
             NewAxialSymmetry(args[1], args[2], args[3], "S")

\* a constructor call and its outcome: the caller holds the new object when
\* there is one, and what it held before otherwise
Construct(op, args) ==
    LET outcome == Call(op, args)
    IN  /\ construction' = [op |-> op, args |-> args,
                            raised |-> outcome.raised,
                            returned |-> outcome.returned]
        /\ composite' = IF outcome.raised = "none" THEN outcome.returned
                        ELSE composite
        /\ UNCHANGED <<vars, ntransforms, notSym>>

ConstructReflection ==
    \E half \in Halves, plane \in Planes :
        Construct("ReflectionSymmetry", <<half, plane>>)

ConstructTranslation ==
    \E mesh_slice \in Halves, translation \in Translations, nb_repetitions \in Counts :
        Construct("TranslationalSymmetry",
                  <<mesh_slice, translation, nb_repetitions>>)

ConstructAxial ==
    \E mesh_slice \in Halves, axis \in Axes, nb_repetitions \in Counts :
        Construct("AxialSymmetry", <<mesh_slice, axis, nb_repetitions>>)

\* a transformation in place of the object the caller holds
Transform(transformed) ==
    /\ composite # NoComposite
    /\ ntransforms < MaxTransforms
    /\ ntransforms' = ntransforms + 1
    /\ composite' = transformed
    /\ UNCHANGED <<vars, construction, notSym>>

TranslateComposite ==
    \E vector \in Vectors : Transform(Translate(composite, vector))

RotateComposite ==
    \E axis \in RotationAxes, angle \in QuarterTurns :
        Transform(Rotate(composite, axis, angle))

MirrorComposite ==
    \E plane \in MirrorPlanes : Transform(Mirror(composite, plane))

\* build_matrices on the object the caller holds, in infinite depth
AssembleComposite ==
    LET r == BuildMatrices(Self(exponential_decompositions), composite,
                           composite, 0, -Infty, 1, FALSE)
    IN  /\ composite # NoComposite
        /\ cache' = r.cache
        /\ last' = [op |-> "build_matrices", raised |-> r.raised,
                    call |-> r.call, S |-> r.S, V |-> r.V]
        /\ UNCHANGED <<max_length, use_cache, exponential_decompositions,
                       touched, inserted, ncalls, others>>

NextSymmetry ==
    \/ ConstructReflection
    \/ ConstructTranslation
    \/ ConstructAxial
    \/ TranslateComposite
    \/ RotateComposite
    \/ MirrorComposite
    \/ AssembleComposite

\* a solver without per-block store, and no symmetric mesh yet
InitSymmetry ==
    /\ SolverIdle
    /\ OthersIdle

SpecSymmetry == InitSymmetry /\ [][NextSymmetry]_<<vars, others>>

RECURSIVE Composites(_)
\* a mesh and the meshes nested in it
Composites(mesh) ==
    {mesh} \cup UNION {Composites(mesh.submeshes[i]) :
                           i \in 1..Len(mesh.submeshes)}

\* the preconditions of the constructors, on a mesh as it is now
Vertical(mesh) ==
    mesh.kind = "ReflectionSymmetry" => mesh.plane.normal[3] = 0

Horizontal(mesh) ==
    mesh.kind = "TranslationalSymmetry" => mesh.translation[3] = 0

WellFormed(mesh) ==
    \A m \in Composites(mesh) : Vertical(m) /\ Horizontal(m)

\* C16: malformed parameters are rejected by the constructors and by
\* nothing else.  A ReflectionSymmetry call raises AssertionError exactly
\* when the half is no mesh, the plane is no Plane or its normal has a non
\* zero z; a TranslationalSymmetry call exactly when the slice is no mesh,
\* nb_repetitions is no int or is below 1, or the translation is no 3-vector
\* or has a non zero z; an AxialSymmetry call exactly when the slice is no
\* mesh, nb_repetitions is no int or is below 1, or the axis is no Axis.  A
\* call that raises returns nothing and leaves the caller with what it held;
\* a call that returns gives a composite of the asked kind.  build_matrices
\* raises on no composite, whatever its stored parameters have become.
C16_RejectedAtConstruction ==
    /\ construction.op = "ReflectionSymmetry" =>
          LET half == construction.args[1]
              plane == construction.args[2]
          IN  (construction.raised = "AssertionError") <=>
                  \/ ~IsMeshOrCollection(half)
                  \/ ~IsPlane(plane)
                  \/ plane.normal[3] # 0
    /\ construction.op = "TranslationalSymmetry" =>
          LET mesh_slice == construction.args[1]
              translation == construction.args[2]
              nb_repetitions == construction.args[3]
          IN  (construction.raised = "AssertionError") <=>
                  \/ ~IsMeshOrCollection(mesh_slice)
                  \/ nb_repetitions.type # "int"
                  \/ nb_repetitions.value < 1
                  \/ Len(translation) # 3
                  \/ translation[3] # 0
    /\ construction.op = "AxialSymmetry" =>
          LET mesh_slice == construction.args[1]
              axis == construction.args[2]
              nb_repetitions == construction.args[3]
          IN  (construction.raised = "AssertionError") <=>
                  \/ ~IsMeshOrCollection(mesh_slice)
                  \/ nb_repetitions.type # "int"
                  \/ nb_repetitions.value < 1
                  \/ ~IsAxis(axis)
    /\ construction.op # "none" =>
          /\ construction.raised \in {"none", "AssertionError"}
          /\ construction.raised = "AssertionError" =>
                construction.returned = NoComposite
          /\ construction.raised = "none" =>
                /\ construction.returned.kind = construction.op
                /\ WellFormed(construction.returned)
    /\ last.op = "build_matrices" => ~last.raised

\* a translation with a vertical component is refused, all else being
\* right, after build_matrices went through the symmetric branch of a
\* composite that a rotation had left with a vertical translation
C16_Witness ==
    /\ construction.op = "TranslationalSymmetry"
    /\ construction.raised = "AssertionError"
    /\ construction.args = <<P1, <<0, 0, 1>>, IntNumber(1)>>
    /\ last.op = "build_matrices"
    /\ composite = last.call.mesh1
    /\ ~WellFormed(last.call.mesh1)
    /\ last.call.branch = "translation"

\* C20: the preconditions of the constructors hold of the composite the
\* caller holds, and of the composites nested in it, after any sequence of
\* translate, rotate and mirror: every stored plane has a normal of zero z
\* and every stored translation has zero z; so they hold of every composite
\* handed to build_matrices.
C20_ConstraintsPreserved ==
    /\ composite # NoComposite => WellFormed(composite)
    /\ last.op = "build_matrices" => WellFormed(last.call.mesh1)

(***************************************************************************)
(* The decomposition a computation made on a kept result consumes.         *)
(***************************************************************************)
\* the evaluations of the finite-depth wave term in the last call
FiniteWaveEvaluations ==
    { n.terms[3] : n \in { m \in LastCalls :
                             /\ Len(m.terms) = 3
                             /\ ~m.terms[3].hit
                             /\ Depth(m.free_surface, m.sea_bottom) < Infty } }

\* C21: get_potential_on_mesh or get_free_surface_elevation on a kept
\* finite-depth result finds a decomposition store that is not empty, every
\* evaluation of the wave term it makes consumes the decomposition stored
\* under the key of that result, and the store is left as it was (nothing
\* inserted, promoted or evicted).
C21_WaveTermUsesOwnKey ==
    (/\ last.op \in {"get_potential_on_mesh", "get_free_surface_elevation"}
     /\ last.result.sources # NoSources
     /\ ProblemDepth(last.result) < Infty) =>
        /\ last.store_before # <<>>
        /\ exponential_decompositions = last.store_before
        /\ \A t \in FiniteWaveEvaluations :
              /\ ~t.raised
              /\ t.value.read_store
              /\ Contains(last.store_before, ProblemKey(last.result))
              /\ t.value.decomposition
                     = ValueOf(last.store_before, ProblemKey(last.result))

====
